---- MODULE Spec2Model ----
(***************************************************************************)
(* Internal-linking pipeline of tools/link_tools.py: the Link Applier      *)
(* (apply_link_insertions), Ledger Sync (save_post_links), Link Removal    *)
(* (remove_internal_links_from_post, remove_single_link_by_id) and the     *)
(* Relevance Scorer (score_link_relevance), over one stored article and    *)
(* its rows of the blog_post_links table.                                  *)
(*                                                                         *)
(* Text is a sequence of one-character strings, so that the substring      *)
(* searches and the regular expressions of the source are computed on the  *)
(* same surface form the program sees.  Positions are 1-based; 0 stands    *)
(* for Python's -1 ("not found").                                          *)
(***************************************************************************)
EXTENDS Integers, Sequences, FiniteSets, TLC

VARIABLES content, ledger, calls, last, scored, probe, inflight

vars == <<content, ledger, calls, last, scored, probe, inflight>>

-----------------------------------------------------------------------------
(* Strings *)

UpperToLower ==
  [c \in {"A","B","C","D","E","F","G","H","I","J","K","L","M",
          "N","O","P","Q","R","S","T","U","V","W","X","Y","Z"} |->
     CASE c = "A" -> "a" [] c = "B" -> "b" [] c = "C" -> "c" [] c = "D" -> "d"
       [] c = "E" -> "e" [] c = "F" -> "f" [] c = "G" -> "g" [] c = "H" -> "h"
       [] c = "I" -> "i" [] c = "J" -> "j" [] c = "K" -> "k" [] c = "L" -> "l"
       [] c = "M" -> "m" [] c = "N" -> "n" [] c = "O" -> "o" [] c = "P" -> "p"
       [] c = "Q" -> "q" [] c = "R" -> "r" [] c = "S" -> "s" [] c = "T" -> "t"
       [] c = "U" -> "u" [] c = "V" -> "v" [] c = "W" -> "w" [] c = "X" -> "x"
       [] c = "Y" -> "y" [] c = "Z" -> "z"]

\* str.lower() on one character
LowerChar(c) == IF c \in DOMAIN UpperToLower THEN UpperToLower[c] ELSE c

\* str.lower()
Lower(s) == [i \in 1..Len(s) |-> LowerChar(s[i])]

\* str.isupper() on one character
IsUpperChar(c) == c \in DOMAIN UpperToLower

\* the characters str.split() and str.strip() and the regex class \s treat as blank
IsSpace(c) == c \in {" ", "\n", "\t"}

\* s[p:p+len(pat)] == pat
StartsAt(s, p, pat) ==
  /\ p >= 1
  /\ p + Len(pat) - 1 <= Len(s)
  /\ \A i \in 1..Len(pat) : s[p + i - 1] = pat[i]

\* s[p:p+len(pat)].lower() == pat, for a lower-case pat
StartsAtLower(s, p, pat) ==
  /\ p >= 1
  /\ p + Len(pat) - 1 <= Len(s)
  /\ \A i \in 1..Len(pat) : LowerChar(s[p + i - 1]) = pat[i]

\* the least element of a set of positions, 0 if it is empty
First(hits) == IF hits = {} THEN 0 ELSE CHOOSE p \in hits : \A q \in hits : p <= q

\* str.find(pat, from): the least position >= from where pat starts, 0 if none
FindFrom(s, pat, from) ==
  First({p \in from..(Len(s) - Len(pat) + 1) : StartsAt(s, p, pat)})

\* s.lower().find(pat, from) for a lower-case pat
FindLowerFrom(s, pat, from) ==
  First({p \in from..(Len(s) - Len(pat) + 1) : StartsAtLower(s, p, pat)})

\* str.find(pat)
Find(s, pat) == FindFrom(s, pat, 1)

\* pat in s
Contains(s, pat) == Find(s, pat) # 0

\* the least position >= from whose character is in the set cs, 0 if none
FindChar(s, cs, from) == First({p \in from..Len(s) : s[p] \in cs})

\* str.strip()
Strip(s) ==
  LET keep == {p \in 1..Len(s) : ~IsSpace(s[p])}
  IN  IF keep = {} THEN <<>>
      ELSE SubSeq(s, CHOOSE p \in keep : \A q \in keep : p <= q,
                     CHOOSE p \in keep : \A q \in keep : p >= q)

\* s[:n]
Take(s, n) == SubSeq(s, 1, IF Len(s) < n THEN Len(s) ELSE n)

\* s[p:] for a 1-based p
From(s, p) == SubSeq(s, p, Len(s))

RECURSIVE SplitFrom(_, _)
\* str.split(): the maximal runs of non-blank characters of s[p:]
SplitFrom(s, p) ==
  LET b == CHOOSE q \in p..(Len(s) + 1) :
             /\ q = Len(s) + 1 \/ ~IsSpace(s[q])
             /\ \A r \in p..(q - 1) : IsSpace(s[r])
  IN  IF b > Len(s) THEN <<>>
      ELSE LET e == CHOOSE q \in b..Len(s) :
                      /\ q = Len(s) \/ IsSpace(s[q + 1])
                      /\ \A r \in b..q : ~IsSpace(s[r])
           IN  <<SubSeq(s, b, e)>> \o SplitFrom(s, e + 1)

Split(s) == SplitFrom(s, 1)

RECURSIVE Join(_, _)
\* sep.join(parts)
Join(sep, parts) ==
  IF parts = <<>> THEN <<>>
  ELSE IF Len(parts) = 1 THEN parts[1]
  ELSE parts[1] \o sep \o Join(sep, Tail(parts))

-----------------------------------------------------------------------------
(* Anchor tags in stored prose: <a href="URL">VISIBLE TEXT</a> *)

Quotes == {"\"", "'"}

LinkOpen == <<"<","a"," ","h","r","e","f","=","\"">>
LinkMid == <<"\"",">">>
LinkClose == <<"<","/","a",">">>
HrefEq == <<"h","r","e","f","=">>

\* f'<a href="{url}">{original_match}</a>'
LinkHtml(url, original_match) == LinkOpen \o url \o LinkMid \o original_match \o LinkClose

NoMatch == [found |-> FALSE, start |-> 0, end |-> 0, href |-> 0, url |-> <<>>, inner |-> <<>>]

Largest(S) == CHOOSE p \in S : \A q \in S : p >= q
Least(S) == CHOOSE p \in S : \A q \in S : p <= q

\* The three tag patterns of the module, as the parts in which they differ:
\*   attrs   [^>]* may stand between "<a\s+" and "href="
\*   quotes  the characters that may quote the href, and that its value excludes
\*   url     the literal href value the pattern is built from, <<>> for a group
\*   slash   the href value starts with "/"
\*   lazy    the inner text is (.*?) rather than ([^<]*)
\* re.compile(r'<a\s+[^>]*href=["\']([^"\']+)["\'][^>]*>(.*?)</a>', I | S)
AnyTag == [attrs |-> TRUE, quotes |-> Quotes, url |-> <<>>, slash |-> FALSE, lazy |-> TRUE]
\* re.compile(r'<a\s+href="(/[^"]*)"[^>]*>([^<]*)</a>', re.IGNORECASE)
InternalTag == [attrs |-> FALSE, quotes |-> {"\""}, url |-> <<>>, slash |-> TRUE, lazy |-> FALSE]
\* re.compile(rf'<a\s+[^>]*href=["\']({escaped_url})["\'][^>]*>([^<]*)</a>', re.IGNORECASE)
SpecificTag(url) == [attrs |-> TRUE, quotes |-> Quotes, url |-> url, slash |-> FALSE, lazy |-> FALSE]

\* The tail of a tag pattern after the closing quote of its href, at position q:
\* [^>]*> then the inner text up to the first </a> (lazy .*?) or up to the first
\* "<", which must open </a> ([^<]*): the positions of ">" and of "</a>", 0 if none
TagTail(s, q, lazy) ==
  LET Close(g) ==
        IF g = 0 THEN 0
        ELSE IF lazy THEN FindLowerFrom(s, LinkClose, g + 1)
        ELSE LET Opens(lt) == IF lt # 0 /\ StartsAtLower(s, lt, LinkClose) THEN lt ELSE 0
             IN  Opens(FindChar(s, {"<"}, g + 1))
      Both(g) == [gt |-> g, close |-> Close(g)]
  IN  Both(FindChar(s, {">"}, q + 1))

\* The match of the pattern pat for a tag opened at p whose "href=" stands at h
TagAtHref(pat, s, p, h) ==
  LET Built(q, t) ==
        IF /\ StartsAtLower(s, h, HrefEq)
           /\ h + 5 <= Len(s) /\ s[h + 5] \in pat.quotes
           /\ q > h + 6 /\ q <= Len(s) /\ s[q] \in pat.quotes
           /\ pat.url # <<>> => StartsAtLower(s, h + 6, Lower(pat.url))
           /\ pat.slash => s[h + 6] = "/"
           /\ t.close # 0
        THEN [found |-> TRUE, start |-> p, end |-> t.close + 3, href |-> h,
              url |-> SubSeq(s, h + 6, q - 1),
              inner |-> SubSeq(s, t.gt + 1, t.close - 1)]
        ELSE NoMatch
      WithQuote(q) == Built(q, TagTail(s, q, pat.lazy))
  IN  WithQuote(IF pat.url = <<>> THEN FindChar(s, pat.quotes, h + 6)
                ELSE h + 6 + Len(pat.url))

\* the match a greedy [^>]* leaves: the one whose "href=" stands rightmost
Rightmost(found) ==
  IF found = {} THEN NoMatch ELSE CHOOSE m \in found : \A o \in found : m.href >= o.href

\* pattern.match(text, p): the match of the pattern pat that starts at p
TagMatchAt(pat, s, p) ==
  IF ~(StartsAtLower(s, p, <<"<","a">>) /\ p + 2 <= Len(s) /\ IsSpace(s[p + 2]))
  THEN NoMatch
  ELSE Rightmost({m \in {TagAtHref(pat, s, p, h) :
                           h \in {r \in (p + 3)..Len(s) :
                                    /\ LowerChar(s[r]) = "h"
                                    /\ \A k \in (p + 3)..(r - 1) :
                                         IF pat.attrs THEN s[k] # ">" ELSE IsSpace(s[k])}} :
                    m.found})

\* the matches of the pattern pat at every position of s
MatchesIn(pat, s) ==
  {m \in {TagMatchAt(pat, s, p) : p \in {r \in 1..Len(s) : s[r] = "<"}} : m.found}

RECURSIVE NonOverlapping(_, _)
\* the matches the scan keeps, left to right: the leftmost at or after from, then
\* those after its end
NonOverlapping(ms, from) ==
  LET Then(m) == <<m>> \o NonOverlapping(ms, m.end + 1)
      Leftmost(next) ==
        IF next = {} THEN <<>>
        ELSE Then(CHOOSE m \in next : \A o \in next : m.start <= o.start)
  IN  Leftmost({m \in ms : m.start >= from})

\* pattern.finditer(text): the non-overlapping matches, left to right
FindAll(pat, s) == NonOverlapping(MatchesIn(pat, s), 1)

RECURSIVE SubInner(_, _, _)
\* pattern.sub(r'\2', text) given the matches ms it replaces: each replaced by
\* its inner text, the text from position from on
SubInner(s, ms, from) ==
  IF ms = <<>> THEN From(s, from)
  ELSE SubSeq(s, from, ms[1].start - 1) \o ms[1].inner \o SubInner(s, Tail(ms), ms[1].end + 1)

RECURSIVE StripTags(_)
\* re.sub(r'<[^>]+>', '', s)
StripTags(s) ==
  LET ps == {p \in 1..Len(s) :
               /\ s[p] = "<"
               /\ p + 1 <= Len(s) /\ s[p + 1] # ">"
               /\ FindChar(s, {">"}, p + 2) # 0}
  IN  IF ps = {} THEN s
      ELSE LET p == Least(ps)
           IN  SubSeq(s, 1, p - 1) \o StripTags(From(s, FindChar(s, {">"}, p + 2) + 1))

-----------------------------------------------------------------------------
(* Anchor Quality Filter *)

\* generic_terms of is_quality_anchor
generic_terms ==
  { <<"g","o","l","f"," ","t","i","p","s">>,
    <<"g","o","l","f"," ","r","u","l","e","s">>,
    <<"g","o","l","f"," ","e","q","u","i","p","m","e","n","t">>,
    <<"g","o","l","f"," ","c","o","u","r","s","e","s">>,
    <<"g","o","l","f"," ","c","l","u","b","s">>,
    <<"g","o","l","f"," ","b","a","l","l","s">>,
    <<"g","o","l","f"," ","g","a","m","e">>,
    <<"g","o","l","f"," ","s","w","i","n","g">>,
    <<"t","h","e"," ","m","a","s","t","e","r","s">>,
    <<"t","h","e"," ","o","p","e","n">>,
    <<"t","h","e"," ","p","g","a">>,
    <<"p","g","a"," ","t","o","u","r">>,
    <<"b","a","l","l"," ","s","t","r","i","k","i","n","g">>,
    <<"c","l","u","b"," ","h","e","a","d">>,
    <<"s","w","i","n","g"," ","s","p","e","e","d">>,
    <<"h","o","w"," ","t","o"," ","g","o","l","f">>,
    <<"g","o","l","f"," ","b","a","s","i","c","s">>,
    <<"g","o","l","f"," ","g","u","i","d","e">>,
    <<"g","o","l","f"," ","h","e","l","p">>,
    <<"l","e","a","r","n"," ","g","o","l","f">>,
    <<"p","l","a","y"," ","g","o","l","f">>,
    <<"p","l","a","y","i","n","g"," ","g","o","l","f">>,
    <<"t","i","p","s"," ","a","n","d"," ","t","r","i","c","k","s">>,
    <<"b","e","s","t"," ","p","r","a","c","t","i","c","e","s">>,
    <<"c","o","m","m","o","n"," ","m","i","s","t","a","k","e","s">>,
    <<"q","u","i","c","k"," ","t","i","p","s">>,
    <<"e","a","s","y"," ","t","i","p","s">>,
    <<"s","i","m","p","l","e"," ","t","i","p","s">> }

\* is_quality_anchor without its proper-noun check
is_quality_anchor_any_proper_noun(anchor) ==
  LET Checks(anchor_lower, words) ==
        /\ ~(Len(words) < 2)
        /\ ~(Len(anchor_lower) < 8)
        /\ ~(anchor_lower \in generic_terms)
      Lowered(anchor_lower) == Checks(anchor_lower, Split(anchor_lower))
  IN  /\ anchor # <<>>
      /\ Lowered(Strip(Lower(anchor)))

\* is_quality_anchor(anchor)
is_quality_anchor(anchor) ==
  LET Checks(anchor_lower, words, original_words) ==
        /\ ~(Len(words) < 2)
        /\ ~(Len(anchor_lower) < 8)
        /\ ~(anchor_lower \in generic_terms)
        /\ ~(/\ \A i \in 1..Len(original_words) : IsUpperChar(original_words[i][1])
             /\ Len(original_words) < 3)
      Lowered(anchor_lower) == Checks(anchor_lower, Split(anchor_lower), Split(Strip(anchor)))
  IN  /\ anchor # <<>>
      /\ Lowered(Strip(Lower(anchor)))

-----------------------------------------------------------------------------
(* Insertion requests: a dict; keys lists the keys the caller supplied *)

\* ins.get(k, default)
Get(ins, k, default) == IF k \in ins.keys THEN ins[k] ELSE default

-----------------------------------------------------------------------------
(* Context Validator *)

ContextChars == 150

SentenceEnds == {".", "!", "?", "\n"}

\* extract_sentence_context(text, anchor, context_chars=150); pos is 0-based as in
\* the source, text[i] of the source is text[i + 1] here
extract_sentence_context(text, anchor) ==
  LET Cut(start, end) == Strip(SubSeq(text, start + 1, end))
      Ends(pos, lo, hi, back, fwd) ==
        Cut(IF back # {} THEN Largest(back) + 1 ELSE lo,
            IF fwd # {} THEN Least(fwd) + 1 ELSE hi)
      Window(pos, lo, hi) ==
        Ends(pos, lo, hi,
             {i \in (lo + 1)..(pos - 1) : text[i + 1] \in SentenceEnds},
             {i \in (pos + Len(anchor))..(hi - 1) : text[i + 1] \in SentenceEnds})
      At(pos) ==
        IF pos = -1 THEN <<>>
        ELSE Window(pos,
                    IF pos - ContextChars > 0 THEN pos - ContextChars ELSE 0,
                    IF Len(text) < pos + ContextChars THEN Len(text) ELSE pos + ContextChars)
  IN  At(FindLowerFrom(text, Lower(anchor), 1) - 1)

\* the text validate_link_contexts_batch searches in one block
ContextText(block) ==
  IF block.type = "paragraph" THEN block.data.text
  ELSE IF block.type = "callout" THEN block.data.text
  ELSE IF block.type = "list" THEN Join(<<" ">>, block.data.items)
  ELSE <<>>

\* the context of one insertion: that of the first block whose text holds the anchor
ContextOf(insertion, content_blocks) ==
  LET In(anchor, texts) ==
        LET Pick(holds) ==
              IF holds = {} THEN <<>>
              ELSE extract_sentence_context(texts[Least(holds)], anchor)
        IN  Pick({k \in 1..Len(texts) :
                    /\ texts[k] # <<>>
                    /\ FindLowerFrom(texts[k], Lower(anchor), 1) # 0})
  IN  In(Get(insertion, "anchor_text", <<>>),
         [k \in 1..Len(content_blocks) |-> ContextText(content_blocks[k])])

\* Answers of the judgment service to one request: a non-200 status, a raised
\* exception (timeout, connection), a body json.loads rejects, a JSON value that is
\* no list, or a JSON list (vals).
JudgeFailOpen == {"status", "exception", "unparsable"}

RECURSIVE FilterValidByInputPosition(_, _, _, _)
\* A variant of the loop "for ctx in contexts" that advances validation_idx for
\* every insertion, with a context or without
FilterValidByInputPosition(insertions, ctxs, vals, idx) ==
  IF insertions = <<>> THEN <<>>
  ELSE IF Head(ctxs) # <<>>
       THEN (IF idx + 1 <= Len(vals) /\ vals[idx + 1] THEN <<Head(insertions)>> ELSE <<>>)
            \o FilterValidByInputPosition(Tail(insertions), Tail(ctxs), vals, idx + 1)
       ELSE <<Head(insertions)>>
            \o FilterValidByInputPosition(Tail(insertions), Tail(ctxs), vals, idx + 1)

RECURSIVE FilterValid(_, _, _, _)
\* the loop "for ctx in contexts" over contexts[k:], validation_idx = idx
FilterValid(insertions, ctxs, vals, idx) ==
  IF insertions = <<>> THEN <<>>
  ELSE IF Head(ctxs) # <<>>
       THEN (IF idx + 1 <= Len(vals) /\ vals[idx + 1] THEN <<Head(insertions)>> ELSE <<>>)
            \o FilterValid(Tail(insertions), Tail(ctxs), vals, idx + 1)
       ELSE <<Head(insertions)>> \o FilterValid(Tail(insertions), Tail(ctxs), vals, idx)

\* contexts of validate_link_contexts_batch
Contexts(insertions, content_blocks) ==
  [k \in 1..Len(insertions) |-> ContextOf(insertions[k], content_blocks)]

\* "if not validations": no insertion has a context, nothing is posted
NoValidations(ctxs) == \A k \in 1..Len(ctxs) : ctxs[k] = <<>>

\* the number of contexts the judgment service is asked about
Asked(ctxs) == Cardinality({k \in 1..Len(ctxs) : ctxs[k] # <<>>})

\* validate_link_contexts_batch once the contexts ctxs are built, under the answer resp
ValidateWith(insertions, ctxs, resp) ==
  IF insertions = <<>> THEN <<>>
  ELSE IF NoValidations(ctxs) THEN insertions
  ELSE IF resp.kind \in JudgeFailOpen THEN insertions
  ELSE IF resp.kind = "nonlist" THEN insertions
  ELSE FilterValid(insertions, ctxs, resp.vals, 0)

\* validate_link_contexts_batch(insertions, content_blocks) under the answer resp
validate_link_contexts_batch(insertions, content_blocks, resp) ==
  ValidateWith(insertions, Contexts(insertions, content_blocks), resp)

-----------------------------------------------------------------------------
(* Link Applier: the text mutation *)

\* A variant of find_and_replace_case_insensitive that writes the phrase as it was
\* asked for, not as the text had it, into the link
find_and_replace_as_searched(text, search, url) ==
  LET At(pos) ==
        IF pos = 0 THEN [text |-> text, matched |-> <<>>]
        ELSE [text |-> SubSeq(text, 1, pos - 1) \o LinkHtml(url, search)
                         \o From(text, pos + Len(search)),
              matched |-> search]
  IN  IF FindLowerFrom(text, Lower(<<">">> \o search \o LinkClose), 1) # 0
      THEN [text |-> text, matched |-> <<>>]
      ELSE At(FindLowerFrom(text, Lower(search), 1))

\* find_and_replace_case_insensitive(text, search, url): (new_text, matched);
\* matched = <<>> stands for None
find_and_replace_case_insensitive(text, search, url) ==
  LET Wrap(pos, original_match) ==
        [text |-> SubSeq(text, 1, pos - 1) \o LinkHtml(url, original_match)
                    \o From(text, pos + Len(search)),
         matched |-> original_match]
      At(pos) ==
        IF pos = 0 THEN [text |-> text, matched |-> <<>>]
        ELSE Wrap(pos, SubSeq(text, pos, pos + Len(search) - 1))
  IN  IF FindLowerFrom(text, Lower(<<">">> \o search \o LinkClose), 1) # 0
      THEN [text |-> text, matched |-> <<>>]
      ELSE At(FindLowerFrom(text, Lower(search), 1))

\* the loop over the items of a list block: the first item that matches is replaced
ReplaceInItems(items, search, url) ==
  LET Pick(rs, hit) ==
        IF hit = {} THEN [items |-> items, matched |-> <<>>]
        ELSE [items |-> [items EXCEPT ![Least(hit)] = rs[Least(hit)].text],
              matched |-> rs[Least(hit)].matched]
      Tried(rs) == Pick(rs, {i \in 1..Len(rs) : rs[i].matched # <<>>})
  IN  Tried([i \in 1..Len(items) |-> find_and_replace_case_insensitive(items[i], search, url)])

\* one pass of "for block in content" for one block: the block after it, and the
\* matched text (<<>> when the block is skipped or holds no match)
ReplaceInBlock(block, search, url, block_id) ==
  LET Text(r) ==
        IF r.matched # <<>>
        THEN [block |-> [block EXCEPT !.data.text = r.text], matched |-> r.matched]
        ELSE [block |-> block, matched |-> <<>>]
      Items(r) == [block |-> [block EXCEPT !.data.items = r.items], matched |-> r.matched]
  IN  IF block_id # "" /\ block.id # block_id THEN [block |-> block, matched |-> <<>>]
      ELSE IF block.type = "paragraph" \/ block.type = "callout"
      THEN Text(find_and_replace_case_insensitive(block.data.text, search, url))
      ELSE IF block.type = "list"
      THEN Items(ReplaceInItems(block.data.items, search, url))
      ELSE [block |-> block, matched |-> <<>>]

\* A variant of ApplyInsertion without the break after the first match: every
\* block that matches is replaced, the first is reported
ApplyInsertionEveryBlock(c, insertion) ==
  LET Pick(anchor_text, url, rs, hit) ==
        IF hit = {}
        THEN [content |-> c, applied |-> <<>>,
              failed |-> <<[anchor_text |-> anchor_text,
                            reason |-> "text not found or already linked"]>>]
        ELSE [content |-> [k \in 1..Len(c) |-> rs[k].block],
              applied |-> <<[anchor_text |-> rs[Least(hit)].matched, url |-> url,
                             block_id |-> c[Least(hit)].id]>>,
              failed |-> <<>>]
      Tried(anchor_text, url, rs) ==
        Pick(anchor_text, url, rs, {k \in 1..Len(rs) : rs[k].matched # <<>>})
      Loop(anchor_text, url) ==
        IF anchor_text = <<>> \/ url = <<>>
        THEN [content |-> c, applied |-> <<>>,
              failed |-> <<[anchor_text |-> anchor_text,
                            reason |-> "missing anchor_text or url"]>>]
        ELSE Tried(anchor_text, url,
                   [k \in 1..Len(c) |->
                      ReplaceInBlock(c[k], anchor_text, url, Get(insertion, "block_id", ""))])
  IN  Loop(Strip(Get(insertion, "anchor_text", <<>>)), Strip(Get(insertion, "url", <<>>)))

\* the body of "for insertion in insertions" for one insertion, on the in-memory
\* content c: the content after it and what it appends to applied and to failed
ApplyInsertion(c, insertion) ==
  LET Pick(anchor_text, url, rs, hit) ==
        IF hit = {}
        THEN [content |-> c, applied |-> <<>>,
              failed |-> <<[anchor_text |-> anchor_text,
                            reason |-> "text not found or already linked"]>>]
        ELSE [content |-> [c EXCEPT ![Least(hit)] = rs[Least(hit)].block],
              applied |-> <<[anchor_text |-> rs[Least(hit)].matched, url |-> url,
                             block_id |-> c[Least(hit)].id]>>,
              failed |-> <<>>]
      Tried(anchor_text, url, rs) ==
        Pick(anchor_text, url, rs, {k \in 1..Len(rs) : rs[k].matched # <<>>})
      Loop(anchor_text, url) ==
        IF anchor_text = <<>> \/ url = <<>>
        THEN [content |-> c, applied |-> <<>>,
              failed |-> <<[anchor_text |-> anchor_text,
                            reason |-> "missing anchor_text or url"]>>]
        ELSE Tried(anchor_text, url,
                   [k \in 1..Len(c) |->
                      ReplaceInBlock(c[k], anchor_text, url, Get(insertion, "block_id", ""))])
  IN  Loop(Strip(Get(insertion, "anchor_text", <<>>)), Strip(Get(insertion, "url", <<>>)))

RECURSIVE ApplyInsertions(_, _)
\* "for insertion in insertions": the content, applied and failed after the loop
ApplyInsertions(c, insertions) ==
  LET Both(one, rest) ==
        [content |-> rest.content,
         applied |-> one.applied \o rest.applied,
         failed |-> one.failed \o rest.failed]
      Then(one) == Both(one, ApplyInsertions(one.content, Tail(insertions)))
  IN  IF insertions = <<>> THEN [content |-> c, applied |-> <<>>, failed |-> <<>>]
      ELSE Then(ApplyInsertion(c, Head(insertions)))

-----------------------------------------------------------------------------
(* Internal URL shape *)

\* Python's None in a field that otherwise holds text
None == <<"None">>

SlugPlaceholder == <<"{","s","l","u","g","}">>
CategoryPlaceholder == <<"{","c","a","t","e","g","o","r","y","}">>

\* INTERNAL_LINK_PATTERN, the configured template (the default the source's comments
\* name: /blog/{slug})
INTERNAL_LINK_PATTERN == <<"/","b","l","o","g","/","{","s","l","u","g","}">>

RECURSIVE Replace(_, _, _)
\* str.replace(old, new)
Replace(s, old, new) ==
  LET p == Find(s, old)
  IN  IF p = 0 THEN s
      ELSE SubSeq(s, 1, p - 1) \o new \o Replace(From(s, p + Len(old)), old, new)

\* build_internal_url(slug, category_slug) under the template pattern;
\* category_slug = <<>> stands for None
build_internal_url(pattern, slug, category_slug) ==
  LET url == Replace(pattern, SlugPlaceholder, slug)
  IN  IF Contains(url, CategoryPlaceholder)
      THEN IF category_slug # <<>>
           THEN Replace(url, CategoryPlaceholder, category_slug)
           ELSE Replace(Replace(url, CategoryPlaceholder \o <<"/">>, <<>>),
                        CategoryPlaceholder, <<>>)
      ELSE url

RECURSIVE MatchTemplate(_, _, _, _)
\* re.match of the regex extract_slug_from_internal_url builds from the template:
\* pattern[i:] against url[p:], {category} as [^/]+, {slug} as ([^/]+), "$" at the
\* end, a "." of the template as any character; the groups are greedy and give
\* back.  The slug captured, or None.
MatchTemplate(pattern, i, url, p) ==
  LET Run(isSlug, next) ==
        LET stop == FindChar(url, {"/"}, p)
            lim == IF stop = 0 THEN Len(url) ELSE stop - 1
            ends == {e \in p..lim : MatchTemplate(pattern, next, url, e + 1) # None}
        IN  IF ends = {} THEN None
            ELSE IF isSlug THEN SubSeq(url, p, Largest(ends))
            ELSE MatchTemplate(pattern, next, url, Largest(ends) + 1)
  IN  IF i > Len(pattern)
      THEN IF p = Len(url) + 1 \/ (p = Len(url) /\ url[p] = "\n") THEN <<>> ELSE None
      ELSE IF StartsAt(pattern, i, SlugPlaceholder)
      THEN Run(TRUE, i + Len(SlugPlaceholder))
      ELSE IF StartsAt(pattern, i, CategoryPlaceholder)
      THEN Run(FALSE, i + Len(CategoryPlaceholder))
      ELSE IF p <= Len(url) /\ (url[p] = pattern[i] \/ (pattern[i] = "." /\ url[p] # "\n"))
      THEN MatchTemplate(pattern, i + 1, url, p + 1)
      ELSE None

\* str.strip("/")
StripSlashes(s) ==
  LET keep == {p \in 1..Len(s) : s[p] # "/"}
  IN  IF keep = {} THEN <<>> ELSE SubSeq(s, Least(keep), Largest(keep))

\* url.strip("/").split("/")[-1]
LastSegment(url) ==
  LET u == StripSlashes(url)
      slashes == {p \in 1..Len(u) : u[p] = "/"}
  IN  IF slashes = {} THEN u ELSE From(u, Largest(slashes) + 1)

\* extract_slug_from_internal_url(url) under the template pattern
extract_slug_from_internal_url(pattern, url) ==
  LET m == MatchTemplate(pattern, 1, url, 1)
  IN  IF m # None THEN m ELSE LastSegment(url)

\* is_internal_url(url)
is_internal_url(url) ==
  StartsAt(url, 1, <<"/">>) /\ ~StartsAt(url, 1, <<"/","/">>)

Letters == DOMAIN UpperToLower \cup {UpperToLower[c] : c \in DOMAIN UpperToLower}

\* the characters urlsplit accepts in a scheme after its first letter
SchemeChars == Letters \cup {"0","1","2","3","4","5","6","7","8","9","+","-","."}

\* what urlsplit parses: the URL without tabs and newlines and without leading blanks
UrlToParse(url) ==
  LET LStrip(u, keep) == IF keep = {} THEN <<>> ELSE From(u, Least(keep))
      Safe(u) == LStrip(u, {p \in 1..Len(u) : u[p] # " "})
  IN  Safe(SelectSeq(url, LAMBDA c : c \notin {"\n", "\t"}))

\* extract_domain(url): urlparse(url).netloc, lowered, without a leading "www."
extract_domain(url) ==
  LET Bare(domain) ==
        IF StartsAt(domain, 1, <<"w","w","w",".">>) THEN From(domain, 5) ELSE domain
      OrNone(bare) == IF bare # <<>> THEN bare ELSE None
      Netloc(rest, stop) ==
        IF ~StartsAt(rest, 1, <<"/","/">>) THEN <<>>
        ELSE IF stop = 0 THEN From(rest, 3) ELSE SubSeq(rest, 3, stop - 1)
      AfterScheme(rest) ==
        OrNone(Bare(Lower(Netloc(rest, FindChar(rest, {"/", "?", "#"}, 3)))))
      Scheme(u, colon) ==
        AfterScheme(IF /\ colon > 1
                       /\ u[1] \in Letters
                       /\ \A i \in 1..(colon - 1) : u[i] \in SchemeChars
                    THEN From(u, colon + 1) ELSE u)
      Parsed(u) == Scheme(u, FindChar(u, {":"}, 1))
  IN  Parsed(UrlToParse(url))

-----------------------------------------------------------------------------
(* Link Ledger Sync: extraction *)

AnchorTextMax == 255

TargetEq == <<"t","a","r","g","e","t","=">>
Blank == <<"_","b","l","a","n","k">>
RelEq == <<"r","e","l","=">>
Nofollow == <<"n","o","f","o","l","l","o","w">>

\* target_pattern.search(full_tag): target=["\']_blank["\'], case-insensitive
OpensNewTab(full_tag) ==
  LET low == Lower(full_tag)
  IN  \E p \in 1..Len(low) :
        /\ low[p] = "t"
        /\ StartsAt(low, p, TargetEq)
        /\ p + 7 <= Len(low) /\ low[p + 7] \in Quotes
        /\ StartsAt(low, p + 8, Blank)
        /\ p + 14 <= Len(low) /\ low[p + 14] \in Quotes

\* nofollow_pattern.search(full_tag): rel=["\'][^"\']*nofollow[^"\']*["\']
IsNofollow(full_tag) ==
  LET low == Lower(full_tag)
  IN  \E p \in 1..Len(low) :
        /\ low[p] = "r"
        /\ StartsAt(low, p, RelEq)
        /\ p + 4 <= Len(low) /\ low[p + 4] \in Quotes
        /\ LET q == FindChar(low, Quotes, p + 5)
           IN  q # 0 /\ Contains(SubSeq(low, p + 5, q - 1), Nofollow)

\* the record links.append(...) adds for one match of anchor_pattern in text
LinkOfMatch(post_id, text, m) ==
  LET Record(anchor_text, full_tag) ==
        [post_id |-> post_id,
         url |-> m.url,
         anchor_text |-> IF anchor_text # <<>> THEN Take(anchor_text, AnchorTextMax) ELSE None,
         link_type |-> IF is_internal_url(m.url) THEN "internal" ELSE "external",
         domain |-> IF ~is_internal_url(m.url) THEN extract_domain(m.url) ELSE None,
         opens_new_tab |-> OpensNewTab(full_tag),
         is_nofollow |-> IsNofollow(full_tag)]
  IN  Record(Strip(StripTags(m.inner)), SubSeq(text, m.start, m.end))

\* the records of "for match in anchor_pattern.finditer(text)"
LinksOfText(post_id, text) ==
  LET Records(ms) == [k \in 1..Len(ms) |-> LinkOfMatch(post_id, text, ms[k])]
  IN  Records(FindAll(AnyTag, text))

RECURSIVE Flatten(_)
\* the concatenation of a sequence of sequences
Flatten(ss) == IF ss = <<>> THEN <<>> ELSE Head(ss) \o Flatten(Tail(ss))

\* the records extract_links_from_content appends for one block
LinksOfBlock(post_id, block) ==
  IF block.type = "paragraph" \/ block.type = "callout"
  THEN LinksOfText(post_id, block.data.text)
  ELSE IF block.type = "list"
  THEN Flatten([i \in 1..Len(block.data.items) |-> LinksOfText(post_id, block.data.items[i])])
  ELSE IF block.type = "button"
  THEN IF block.data.url # <<>>
       THEN <<[post_id |-> post_id,
               url |-> block.data.url,
               anchor_text |-> Take(block.data.text, AnchorTextMax),
               link_type |-> IF is_internal_url(block.data.url) THEN "internal" ELSE "external",
               domain |-> IF ~is_internal_url(block.data.url)
                          THEN extract_domain(block.data.url) ELSE None,
               opens_new_tab |-> block.data.newTab,
               is_nofollow |-> FALSE]>>
       ELSE <<>>
  ELSE IF block.type = "accordion"
  THEN Flatten([i \in 1..Len(block.data.items) |->
                  LinksOfText(post_id, block.data.items[i].answer)])
  ELSE <<>>

\* extract_links_from_content(content, post_id)
extract_links_from_content(c, post_id) ==
  Flatten([k \in 1..Len(c) |-> LinksOfBlock(post_id, c[k])])

-----------------------------------------------------------------------------
(* The content store: one article (blog_posts) and the ledger (blog_post_links) *)

\* the id of the stored article
PostId == "p1"

\* the published catalog: slug -> article id (blog_posts?slug=in.(...)&select=id,slug)
SlugToId(slug) ==
  IF slug = <<"g">> THEN "p2"
  ELSE IF slug = <<"s">> THEN "p3"
  ELSE "None"

\* Answers of the content store to one request: success, a non-success status, or
\* a raised exception (connection error, timeout)
StoreAnswers == {"ok", "status", "raise"}

\* resolve_internal_link_post_ids(links): whether the batched slug query is sent
AsksSlugs(links) ==
  \E k \in 1..Len(links) :
    /\ links[k].link_type = "internal"
    /\ extract_slug_from_internal_url(INTERNAL_LINK_PATTERN, links[k].url) # <<>>

\* resolve_internal_link_post_ids(links) under the store's answer to the slug query;
\* a link without the linked_post_id key is stored with NULL there
resolve_internal_link_post_ids(links, lookup) ==
  LET Id(link, slug) ==
        IF link.link_type = "internal" /\ slug # <<>> /\ lookup = "ok"
        THEN SlugToId(slug) ELSE "None"
  IN  [k \in 1..Len(links) |->
         [post_id |-> links[k].post_id,
          url |-> links[k].url,
          anchor_text |-> links[k].anchor_text,
          link_type |-> links[k].link_type,
          domain |-> links[k].domain,
          opens_new_tab |-> links[k].opens_new_tab,
          is_nofollow |-> links[k].is_nofollow,
          linked_post_id |->
            Id(links[k], extract_slug_from_internal_url(INTERNAL_LINK_PATTERN, links[k].url))]]

\* the ids the table gives k new rows: the least ids no row of ldg has
RECURSIVE FreshIds(_, _)
FreshIds(used, k) ==
  LET Then(id) == <<id>> \o FreshIds(used \cup {id}, k - 1)
  IN  IF k = 0 THEN <<>>
      ELSE Then(Least({n \in 1..(Cardinality(used) + 1) : n \notin used}))

\* POST blog_post_links with json=links: the rows inserted into ldg
InsertRows(ldg, links) ==
  LET Rows(ids) ==
        {[id |-> ids[k],
          post_id |-> links[k].post_id,
          url |-> links[k].url,
          anchor_text |-> links[k].anchor_text,
          link_type |-> links[k].link_type,
          domain |-> links[k].domain,
          opens_new_tab |-> links[k].opens_new_tab,
          is_nofollow |-> links[k].is_nofollow,
          linked_post_id |-> links[k].linked_post_id] : k \in 1..Len(links)}
  IN  ldg \cup Rows(FreshIds({r.id : r \in ldg}, Len(links)))

\* The store's answers one save_post_links run consumes
NoSync == [lookup |-> "ok", del |-> "ok", ins |-> "ok"]

\* A variant of SaveLinks whose delete removes the internal rows of the article
\* only, as the delete of remove_internal_links_from_post does
SaveLinksKeepingExternal(links, post_id, ldg, env) ==
  LET Out(lookupReq, deleted) ==
        IF env.del = "raise"
        THEN [ledger |-> ldg, saved |-> 0,
              requests |-> lookupReq \o <<"DELETE blog_post_links post">>, done |-> FALSE]
        ELSE IF env.ins # "ok"
        THEN [ledger |-> deleted, saved |-> 0,
              requests |-> lookupReq \o <<"DELETE blog_post_links post", "POST blog_post_links">>,
              done |-> FALSE]
        ELSE [ledger |-> InsertRows(deleted, resolve_internal_link_post_ids(links, env.lookup)),
              saved |-> Len(links),
              requests |-> lookupReq \o <<"DELETE blog_post_links post", "POST blog_post_links">>,
              done |-> env.del = "ok" /\ env.lookup = "ok"]
  IN  IF links = <<>>
      THEN [ledger |-> ldg, saved |-> 0, requests |-> <<>>, done |-> FALSE]
      ELSE Out(IF AsksSlugs(links) THEN <<"GET blog_posts slugs">> ELSE <<>>,
               IF env.del = "ok"
               THEN {r \in ldg : ~(r.post_id = post_id /\ r.link_type = "internal")}
               ELSE ldg)

\* save_post_links once the links of the content are extracted: the ledger after
\* it, the number it returns, the requests it sent, whether every request succeeded
SaveLinks(links, post_id, ldg, env) ==
  LET Out(lookupReq, deleted) ==
        IF env.del = "raise"
        THEN [ledger |-> ldg, saved |-> 0,
              requests |-> lookupReq \o <<"DELETE blog_post_links post">>, done |-> FALSE]
        ELSE IF env.ins # "ok"
        THEN [ledger |-> deleted, saved |-> 0,
              requests |-> lookupReq \o <<"DELETE blog_post_links post", "POST blog_post_links">>,
              done |-> FALSE]
        ELSE [ledger |-> InsertRows(deleted, resolve_internal_link_post_ids(links, env.lookup)),
              saved |-> Len(links),
              requests |-> lookupReq \o <<"DELETE blog_post_links post", "POST blog_post_links">>,
              done |-> env.del = "ok" /\ env.lookup = "ok"]
  IN  IF links = <<>>
      THEN [ledger |-> ldg, saved |-> 0, requests |-> <<>>, done |-> FALSE]
      ELSE Out(IF AsksSlugs(links) THEN <<"GET blog_posts slugs">> ELSE <<>>,
               IF env.del = "ok" THEN {r \in ldg : r.post_id # post_id} ELSE ldg)

\* save_post_links(post_id, content) on the ledger ldg under the answers env
save_post_links(post_id, c, ldg, env) ==
  SaveLinks(extract_links_from_content(c, post_id), post_id, ldg, env)

\* The answers save_post_links can get for the links it extracted: every request it
\* sends answered well, or one of them failing
SyncEnvs(links) ==
  IF links = <<>> THEN {NoSync}
  ELSE {NoSync,
        [NoSync EXCEPT !.del = "status"],
        [NoSync EXCEPT !.del = "raise"],
        [NoSync EXCEPT !.ins = "status"]}
       \cup (IF AsksSlugs(links) THEN {[NoSync EXCEPT !.lookup = "raise"]} ELSE {})

-----------------------------------------------------------------------------
(* Link Applier: apply_link_insertions *)

\* matched_anti of the anti-pattern pre-filter for one insertion: the first
\* anti-pattern that contains the anchor or is contained in it, <<>> if none (an
\* empty matched_anti is falsy: the insertion is kept)
MatchedAnti(ins) ==
  LET anti_patterns == Get(ins, "anti_patterns", <<>>)
      anchor_lower == Lower(Get(ins, "anchor_text", <<>>))
      hit == {k \in 1..Len(anti_patterns) :
                \/ Contains(anchor_lower, Lower(anti_patterns[k]))
                \/ Contains(Lower(anti_patterns[k]), anchor_lower)}
  IN  IF hit = {} THEN <<>> ELSE anti_patterns[Least(hit)]

RECURSIVE SelectSeq2(_, _)
\* [x for x in seq if keep[x]], keep given as the set of kept indices of seq
SelectSeq2(seq, kept) ==
  IF seq = <<>> THEN <<>>
  ELSE (IF 1 \in kept THEN <<Head(seq)>> ELSE <<>>)
       \o SelectSeq2(Tail(seq), {k - 1 : k \in kept \ {1}})

\* filtered_by_anti
FilterAnti(insertions) ==
  SelectSeq2(insertions, {k \in 1..Len(insertions) : MatchedAnti(insertions[k]) = <<>>})

\* anti_pattern_rejected, as printed: the anchor and the matched anti-pattern
RejectedAnti(insertions) ==
  LET rej == SelectSeq2(insertions,
                        {k \in 1..Len(insertions) : MatchedAnti(insertions[k]) # <<>>})
  IN  [k \in 1..Len(rej) |-> [anchor |-> Get(rej[k], "anchor_text", None),
                              reason |-> MatchedAnti(rej[k])]]

\* filtered_by_quality
FilterQuality(insertions) ==
  SelectSeq2(insertions, {k \in 1..Len(insertions) :
                            is_quality_anchor(Get(insertions[k], "anchor_text", <<>>))})

\* quality_rejected, as printed
RejectedQuality(insertions) ==
  LET rej == SelectSeq2(insertions, {k \in 1..Len(insertions) :
                            ~is_quality_anchor(Get(insertions[k], "anchor_text", <<>>))})
  IN  [k \in 1..Len(rej) |-> [anchor |-> Get(rej[k], "anchor_text", <<>>),
                              reason |-> "too generic or short"]]

\* A variant of insertions_with_titles that keeps every insertion
WithTitlesOrWithout(insertions) == insertions

\* insertions_with_titles
WithTitles(insertions) ==
  SelectSeq2(insertions, {k \in 1..Len(insertions) :
                            Get(insertions[k], "target_title", <<>>) # <<>>})

\* ins["url"] raises KeyError in the context phase: a titled insertion without the key
ContextPhaseRaises(insertions) ==
  \E k \in 1..Len(insertions) :
    /\ Get(insertions[k], "target_title", <<>>) # <<>>
    /\ "url" \notin insertions[k].keys

\* validated_pairs
ValidatedPairs(validated) ==
  {<<Lower(validated[k].anchor_text), validated[k].url>> : k \in 1..Len(validated)}

\* filtered_insertions of the context phase
FilterContext(insertions, pairs) ==
  SelectSeq2(insertions, {k \in 1..Len(insertions) :
     \/ Get(insertions[k], "target_title", <<>>) = <<>>
     \/ <<Lower(insertions[k].anchor_text), insertions[k].url>> \in pairs})

\* context_rejected, as printed
RejectedContext(insertions, pairs) ==
  LET rej == SelectSeq2(insertions, {k \in 1..Len(insertions) :
                 /\ Get(insertions[k], "target_title", <<>>) # <<>>
                 /\ <<Lower(insertions[k].anchor_text), insertions[k].url>> \notin pairs})
  IN  [k \in 1..Len(rej) |-> [anchor |-> rej[k].anchor_text,
                              reason |-> "context/specificity mismatch"]]

NoLog == [anti |-> <<>>, quality |-> <<>>, context |-> <<>>]

\* The value an operation returns: ok is "not is_error" (the Applier) or "success"
\* (Removal); count is total_tracked, removed or the number Sync returns
Result(ok, msg, applied, failed, count) ==
  [ok |-> ok, msg |-> msg, applied |-> applied, failed |-> failed, count |-> count]

\* What one invocation did: the stored content and ledger after it, whether the
\* content write succeeded, what it returned, printed and requested
Outcome(c, ldg, wrote, result, log, requests) ==
  [content |-> c, ledger |-> ldg, wrote |-> wrote, result |-> result,
   log |-> log, requests |-> requests]

\* The judgment service was not asked
NoAnswer == [kind |-> "none", vals |-> <<>>]

\* apply_link_insertions up to the context phase, on the stored content c:
\* stage "return" with the early return's message, or stage "judge" with the
\* insertions that survived the two filters
ApplyFilters(c, args, get) ==
  LET Return(ok, msg, lg, reqs) ==
        [stage |-> "return", ok |-> ok, msg |-> msg, log |-> lg, requests |-> reqs,
         insertions |-> <<>>]
      Logged(quality, log) ==
        IF quality = <<>>
        THEN Return(TRUE, "No links applied - all rejected", log, <<"GET blog_posts">>)
        ELSE [stage |-> "judge", ok |-> TRUE, msg |-> "", log |-> log,
              requests |-> <<"GET blog_posts">>, insertions |-> quality]
      Filtered(anti) ==
        Logged(FilterQuality(anti),
               [anti |-> RejectedAnti(args.insertions),
                quality |-> RejectedQuality(anti),
                context |-> <<>>])
  IN  IF args.post_id = "" THEN Return(FALSE, "Error: post_id required", NoLog, <<>>)
      ELSE IF args.insertions = <<>>
      THEN Return(FALSE, "Error: insertions array required", NoLog, <<>>)
      ELSE IF get = "status"
      THEN Return(FALSE, "Error fetching post", NoLog, <<"GET blog_posts">>)
      ELSE IF get = "raise"
      THEN Return(FALSE, "Error: exception", NoLog, <<"GET blog_posts">>)
      ELSE IF args.post_id # PostId
      THEN Return(FALSE, "Post not found", NoLog, <<"GET blog_posts">>)
      ELSE IF c = <<>>
      THEN Return(FALSE, "Post has no content", NoLog, <<"GET blog_posts">>)
      ELSE Filtered(FilterAnti(args.insertions))

\* contexts of the context phase: those validate_link_contexts_batch builds for
\* insertions_with_titles, <<>> when the run returned before the phase
ApplyContexts(c, f) ==
  IF f.stage = "judge" THEN Contexts(WithTitles(f.insertions), c) ELSE <<>>

\* whether the run posts to the judgment service
ApplyAsksJudge(f, ctxs) == f.stage = "judge" /\ ~NoValidations(ctxs)

\* apply_link_insertions from the context phase to the in-memory mutation, given
\* the contexts ctxs of that phase and the judgment service's answer
ApplyMutateWith(c, f, ctxs, judge) ==
  LET Return(ok, msg, lg, failed, asked) ==
        [stage |-> "return", ok |-> ok, msg |-> msg, log |-> lg,
         requests |-> f.requests \o asked, content |-> c, applied |-> <<>>,
         failed |-> failed]
      Looped(asked, log, loop) ==
        IF loop.applied = <<>>
        THEN Return(TRUE, "No links applied. Failed", log, loop.failed, asked)
        ELSE [stage |-> "write", ok |-> TRUE, msg |-> "", log |-> log,
              requests |-> f.requests \o asked, content |-> loop.content,
              applied |-> loop.applied, failed |-> loop.failed]
      Filtered(asked, log, insertions) ==
        IF insertions = <<>>
        THEN Return(TRUE, "No links applied - all failed context validation", log, <<>>, asked)
        ELSE Looped(asked, log, ApplyInsertions(c, insertions))
      Judged(titled, asked, pairs) ==
        Filtered(asked,
                 [f.log EXCEPT !.context =
                    IF titled = <<>> THEN <<>> ELSE RejectedContext(f.insertions, pairs)],
                 IF titled = <<>> THEN f.insertions ELSE FilterContext(f.insertions, pairs))
      Phase(titled, asked) ==
        IF titled # <<>> /\ ContextPhaseRaises(f.insertions)
        THEN Return(FALSE, "Error: exception", f.log, <<>>, asked)
        ELSE Judged(titled, asked, ValidatedPairs(ValidateWith(titled, ctxs, judge)))
  IN  IF f.stage = "return"
      THEN [stage |-> "return", ok |-> f.ok, msg |-> f.msg, log |-> f.log,
            requests |-> f.requests, content |-> c, applied |-> <<>>, failed |-> <<>>]
      ELSE Phase(WithTitles(f.insertions),
                 IF ApplyAsksJudge(f, ctxs) THEN <<"POST judgment">> ELSE <<>>)

\* A variant of the content write that goes on to save_post_links whatever status
\* the write returned
ApplyPersistUnchecked(c, ldg, args, m, links, env) ==
  LET Synced(sync) ==
        Outcome(IF env.patch = "ok" THEN m.content ELSE c, sync.ledger, env.patch = "ok",
                Result(TRUE, "applied", m.applied, m.failed, sync.saved), m.log,
                m.requests \o <<"PATCH blog_posts">> \o sync.requests)
  IN  IF m.stage = "return"
      THEN Outcome(c, ldg, FALSE, Result(m.ok, m.msg, <<>>, m.failed, 0), m.log, m.requests)
      ELSE IF env.patch = "raise"
      THEN Outcome(c, ldg, FALSE, Result(FALSE, "Error: exception", <<>>, <<>>, 0), m.log,
                   m.requests \o <<"PATCH blog_posts">>)
      ELSE Synced(SaveLinks(links, args.post_id, ldg, env.sync))

\* apply_link_insertions from the content write on, given the mutation m and the
\* links extracted from the mutated content
ApplyPersist(c, ldg, args, m, links, env) ==
  LET Synced(sync) ==
        Outcome(m.content, sync.ledger, TRUE,
                Result(TRUE, "applied", m.applied, m.failed, sync.saved), m.log,
                m.requests \o <<"PATCH blog_posts">> \o sync.requests)
  IN  IF m.stage = "return"
      THEN Outcome(c, ldg, FALSE, Result(m.ok, m.msg, <<>>, m.failed, 0), m.log, m.requests)
      ELSE IF env.patch = "status"
      THEN Outcome(c, ldg, FALSE, Result(FALSE, "Error saving", <<>>, <<>>, 0), m.log,
                   m.requests \o <<"PATCH blog_posts">>)
      ELSE IF env.patch = "raise"
      THEN Outcome(c, ldg, FALSE, Result(FALSE, "Error: exception", <<>>, <<>>, 0), m.log,
                   m.requests \o <<"PATCH blog_posts">>)
      ELSE Synced(SaveLinks(links, args.post_id, ldg, env.sync))

\* apply_link_insertions(args) on the stored content c and ledger ldg, under the
\* answers env of the store and of the judgment service
apply_link_insertions(c, ldg, args, env) ==
  LET Mutated(m) ==
        ApplyPersist(c, ldg, args, m, extract_links_from_content(m.content, args.post_id), env)
      Filtered(f) == Mutated(ApplyMutateWith(c, f, ApplyContexts(c, f), env.judge))
  IN  Filtered(ApplyFilters(c, args, env.get))

-----------------------------------------------------------------------------
(* Link Removal *)

RECURSIVE Sum(_)
\* the running total removed_count += count
Sum(ns) == IF ns = <<>> THEN 0 ELSE Head(ns) + Sum(Tail(ns))

\* strip_internal_links(text): (cleaned, count)
strip_internal_links(text) ==
  LET Subn(ms) == [cleaned |-> SubInner(text, ms, 1), count |-> Len(ms)]
  IN  Subn(FindAll(InternalTag, text))

\* the body of "for block in content" of remove_internal_links_from_post for one
\* block: the block after it and what it adds to removed_count
StripBlock(block) ==
  LET Text(r) ==
        [block |-> IF r.count > 0 THEN [block EXCEPT !.data.text = r.cleaned] ELSE block,
         count |-> r.count]
      Items(r) ==
        [block |-> [block EXCEPT !.data.items =
                      [i \in 1..Len(r) |-> IF r[i].count > 0 THEN r[i].cleaned
                                           ELSE block.data.items[i]]],
         count |-> Sum([i \in 1..Len(r) |-> r[i].count])]
  IN  IF block.type = "paragraph" \/ block.type = "callout"
      THEN Text(strip_internal_links(block.data.text))
      ELSE IF block.type = "list"
      THEN Items([i \in 1..Len(block.data.items) |-> strip_internal_links(block.data.items[i])])
      ELSE [block |-> block, count |-> 0]

\* "for block in content" of remove_internal_links_from_post over the content c
StripAll(c) == [k \in 1..Len(c) |-> StripBlock(c[k])]

\* A variant of remove_internal_links_from_post that goes on to the ledger delete
\* when the content write returned a non-success status
RemoveAllWithDeleteAnyway(rs, c, ldg, post_id, env) ==
  LET Fail(msg, reqs) == Outcome(c, ldg, FALSE, Result(FALSE, msg, <<>>, <<>>, 0), NoLog, reqs)
      Counted(cleaned, removed_count) ==
        IF removed_count = 0
        THEN Outcome(c, ldg, FALSE, Result(TRUE, "No internal links found", <<>>, <<>>, 0),
                     NoLog, <<"GET blog_posts">>)
        ELSE IF env.patch = "status"
        THEN Outcome(c, {r \in ldg : ~(r.post_id = post_id /\ r.link_type = "internal")}, FALSE,
                     Result(FALSE, "Failed to save cleaned content", <<>>, <<>>, 0), NoLog,
                     <<"GET blog_posts", "PATCH blog_posts", "DELETE blog_post_links internal">>)
        ELSE IF env.patch = "raise"
        THEN Fail("exception", <<"GET blog_posts", "PATCH blog_posts">>)
        ELSE IF env.del = "raise"
        THEN Outcome(cleaned, ldg, TRUE, Result(FALSE, "exception", <<>>, <<>>, 0), NoLog,
                     <<"GET blog_posts", "PATCH blog_posts", "DELETE blog_post_links internal">>)
        ELSE Outcome(cleaned,
                     IF env.del = "ok"
                     THEN {r \in ldg : ~(r.post_id = post_id /\ r.link_type = "internal")}
                     ELSE ldg,
                     TRUE, Result(TRUE, "removed", <<>>, <<>>, removed_count), NoLog,
                     <<"GET blog_posts", "PATCH blog_posts", "DELETE blog_post_links internal">>)
  IN  IF env.get = "status" THEN Fail("Failed to fetch post", <<"GET blog_posts">>)
      ELSE IF env.get = "raise" THEN Fail("exception", <<"GET blog_posts">>)
      ELSE IF post_id # PostId THEN Fail("Post not found", <<"GET blog_posts">>)
      ELSE IF c = <<>>
      THEN Outcome(c, ldg, FALSE, Result(TRUE, "No content", <<>>, <<>>, 0), NoLog,
                   <<"GET blog_posts">>)
      ELSE Counted([k \in 1..Len(rs) |-> rs[k].block], Sum([k \in 1..Len(rs) |-> rs[k].count]))

\* remove_internal_links_from_post once the blocks are stripped (rs); env: the
\* store's answers to the read, the content write and the ledger delete
RemoveAllWith(rs, c, ldg, post_id, env) ==
  LET Fail(msg, reqs) == Outcome(c, ldg, FALSE, Result(FALSE, msg, <<>>, <<>>, 0), NoLog, reqs)
      Counted(cleaned, removed_count) ==
        IF removed_count = 0
        THEN Outcome(c, ldg, FALSE, Result(TRUE, "No internal links found", <<>>, <<>>, 0),
                     NoLog, <<"GET blog_posts">>)
        ELSE IF env.patch = "status"
        THEN Fail("Failed to save cleaned content", <<"GET blog_posts", "PATCH blog_posts">>)
        ELSE IF env.patch = "raise"
        THEN Fail("exception", <<"GET blog_posts", "PATCH blog_posts">>)
        ELSE IF env.del = "raise"
        THEN Outcome(cleaned, ldg, TRUE, Result(FALSE, "exception", <<>>, <<>>, 0), NoLog,
                     <<"GET blog_posts", "PATCH blog_posts", "DELETE blog_post_links internal">>)
        ELSE Outcome(cleaned,
                     IF env.del = "ok"
                     THEN {r \in ldg : ~(r.post_id = post_id /\ r.link_type = "internal")}
                     ELSE ldg,
                     TRUE, Result(TRUE, "removed", <<>>, <<>>, removed_count), NoLog,
                     <<"GET blog_posts", "PATCH blog_posts", "DELETE blog_post_links internal">>)
  IN  IF env.get = "status" THEN Fail("Failed to fetch post", <<"GET blog_posts">>)
      ELSE IF env.get = "raise" THEN Fail("exception", <<"GET blog_posts">>)
      ELSE IF post_id # PostId THEN Fail("Post not found", <<"GET blog_posts">>)
      ELSE IF c = <<>>
      THEN Outcome(c, ldg, FALSE, Result(TRUE, "No content", <<>>, <<>>, 0), NoLog,
                   <<"GET blog_posts">>)
      ELSE Counted([k \in 1..Len(rs) |-> rs[k].block], Sum([k \in 1..Len(rs) |-> rs[k].count]))

\* remove_internal_links_from_post(post_id) on the stored content c and ledger ldg
remove_internal_links_from_post(c, ldg, post_id, env) ==
  RemoveAllWith(StripAll(c), c, ldg, post_id, env)

\* strip_specific_link(text): (cleaned, found) for the pattern built from url
strip_specific_link(text, url) ==
  LET Subn(ms) == [cleaned |-> SubInner(text, Take(ms, 1), 1), found |-> ms # <<>>]
  IN  Subn(FindAll(SpecificTag(url), text))

\* the texts remove_single_link_by_id looks into in one block, in its order
TextsOf(block) ==
  IF block.type = "paragraph" \/ block.type = "callout" THEN <<block.data.text>>
  ELSE IF block.type = "list" THEN block.data.items
  ELSE IF block.type = "accordion"
  THEN [i \in 1..Len(block.data.items) |-> block.data.items[i].answer]
  ELSE <<>>

\* the block with its i-th text replaced
WithText(block, i, text) ==
  IF block.type = "paragraph" \/ block.type = "callout"
  THEN [block EXCEPT !.data.text = text]
  ELSE IF block.type = "list" THEN [block EXCEPT !.data.items[i] = text]
  ELSE [block EXCEPT !.data.items[i].answer = text]

\* the body of "for block in content" of remove_single_link_by_id for one block:
\* the first of its texts that holds the tag is stripped
StripOneInBlock(block, url) ==
  LET Pick(rs, hit) ==
        IF hit = {} THEN [block |-> block, found |-> FALSE]
        ELSE [block |-> WithText(block, Least(hit), rs[Least(hit)].cleaned), found |-> TRUE]
      Tried(rs) == Pick(rs, {i \in 1..Len(rs) : rs[i].found})
      Over(texts) == Tried([i \in 1..Len(texts) |-> strip_specific_link(texts[i], url)])
  IN  Over(TextsOf(block))

\* the row remove_single_link_by_id reads for link_id: url is <<>> if there is none
LinkRecord(ldg, link_id) ==
  IF \E r \in ldg : r.id = link_id THEN CHOOSE r \in ldg : r.id = link_id
  ELSE [id |-> link_id, post_id |-> "", url |-> <<>>]

\* "for block in content" of remove_single_link_by_id for the URL url
StripOne(c, url) == [k \in 1..Len(c) |-> StripOneInBlock(c[k], url)]

\* remove_single_link_by_id once the row is read and the blocks are tried (rs); env:
\* the store's answers to the two reads, the content write and the ledger delete
RemoveOneWith(rs, c, ldg, link_id, env) ==
  LET links == {r \in ldg : r.id = link_id}
      link_record == LinkRecord(ldg, link_id)
      reads == <<"GET blog_post_links", "GET blog_posts">>
      Fail(cc, wrote, msg, reqs) ==
        Outcome(cc, ldg, wrote, Result(FALSE, msg, <<>>, <<>>, 0), NoLog, reqs)
      Tried(removed, cleaned, write) ==
        IF removed /\ env.patch = "status"
        THEN Fail(c, FALSE, "Failed to save updated content", reads \o write)
        ELSE IF removed /\ env.patch = "raise"
        THEN Fail(c, FALSE, "exception", reads \o write)
        ELSE IF env.del = "status"
        THEN Fail(cleaned, removed, "Failed to delete link record",
                  reads \o write \o <<"DELETE blog_post_links id">>)
        ELSE IF env.del = "raise"
        THEN Fail(cleaned, removed, "exception",
                  reads \o write \o <<"DELETE blog_post_links id">>)
        ELSE Outcome(cleaned, ldg \ links, removed,
                     Result(TRUE, "removed", <<>>, <<>>, IF removed THEN 1 ELSE 0), NoLog,
                     reads \o write \o <<"DELETE blog_post_links id">>)
      Hit(hit) ==
        Tried(hit # {},
              IF hit # {} THEN [c EXCEPT ![Least(hit)] = rs[Least(hit)].block] ELSE c,
              IF hit # {} THEN <<"PATCH blog_posts">> ELSE <<>>)
  IN  IF env.getlink = "status"
      THEN Fail(c, FALSE, "Failed to fetch link record", <<"GET blog_post_links">>)
      ELSE IF env.getlink = "raise" THEN Fail(c, FALSE, "exception", <<"GET blog_post_links">>)
      ELSE IF links = {} THEN Fail(c, FALSE, "Link not found", <<"GET blog_post_links">>)
      ELSE IF env.get = "status" THEN Fail(c, FALSE, "Failed to fetch post", reads)
      ELSE IF env.get = "raise" THEN Fail(c, FALSE, "exception", reads)
      ELSE IF link_record.post_id # PostId THEN Fail(c, FALSE, "Post not found", reads)
      ELSE IF c = <<>>
      THEN Outcome(c, IF env.del = "ok" THEN ldg \ links ELSE ldg, FALSE,
                   Result(env.del # "raise",
                          IF env.del = "raise" THEN "exception"
                          ELSE "Link record deleted (post has no content)", <<>>, <<>>, 0),
                   NoLog, reads \o <<"DELETE blog_post_links id">>)
      ELSE Hit({k \in 1..Len(rs) : rs[k].found})

\* remove_single_link_by_id(link_id) on the stored content c and ledger ldg
remove_single_link_by_id(c, ldg, link_id, env) ==
  RemoveOneWith(StripOne(c, LinkRecord(ldg, link_id).url), c, ldg, link_id, env)

-----------------------------------------------------------------------------
(* Relevance Scorer *)

\* stop_words of extract_anchor_patterns
stop_words ==
  { <<"a">>, <<"a","n">>, <<"t","h","e">>, <<"h","o","w">>, <<"t","o">>, <<"w","h","a","t">>,
    <<"i","s">>, <<"a","r","e">>, <<"w","a","s">>, <<"w","e","r","e">>, <<"f","o","r">>,
    <<"o","f">>, <<"i","n">>, <<"o","n">>, <<"a","t">>, <<"b","y">>, <<"w","i","t","h">>,
    <<"y","o","u","r">>, <<"m","y">>, <<"o","u","r">>, <<"t","h","i","s">>, <<"t","h","a","t">>,
    <<"t","h","e","s","e">>, <<"t","h","o","s","e">>, <<"a","n","d">>, <<"o","r">>,
    <<"b","u","t">>, <<"s","o">>, <<"c","o","m","p","l","e","t","e">>, <<"g","u","i","d","e">>,
    <<"u","l","t","i","m","a","t","e">>, <<"b","e","s","t">>, <<"t","o","p">>, <<"t","i","p","s">>,
    <<"t","r","i","c","k","s">>, <<"b","e","g","i","n","n","e","r","s">>, <<"b","e","g","i","n","n","e","r">>,
    <<"a","d","v","a","n","c","e","d">>, <<"s","i","m","p","l","e">>, <<"e","a","s","y">>,
    <<"q","u","i","c","k">> }

\* the characters \w matches in a lowered title
WordChars ==
  {UpperToLower[c] : c \in DOMAIN UpperToLower}
  \cup {"0","1","2","3","4","5","6","7","8","9","_"}

RECURSIVE AddBigrams(_, _, _)
\* "for i in range(len(core_words) - 1)" from i on: the bigrams appended to patterns
AddBigrams(patterns, core_words, i) ==
  LET Add(bigram) ==
        AddBigrams(IF (\A k \in 1..Len(patterns) : patterns[k] # bigram) /\ Len(bigram) > 5
                   THEN Append(patterns, bigram) ELSE patterns,
                   core_words, i + 1)
  IN  IF i > Len(core_words) - 1 THEN patterns
      ELSE Add(core_words[i] \o <<" ">> \o core_words[i + 1])

RECURSIVE AddWords(_, _, _)
\* "for word in core_words" from the i-th word on: the words appended to patterns
AddWords(patterns, core_words, i) ==
  IF i > Len(core_words) THEN patterns
  ELSE AddWords(IF /\ Len(core_words[i]) > 4
                   /\ \A k \in 1..Len(patterns) : patterns[k] # core_words[i]
                THEN Append(patterns, core_words[i]) ELSE patterns,
                core_words, i + 1)

\* extract_anchor_patterns(title)
extract_anchor_patterns(title) ==
  LET IsCore(w) == w \notin stop_words /\ Len(w) > 2
      Phrase(core_words, phrase) ==
        IF Len(core_words) >= 2 /\ Len(phrase) > 5 THEN <<phrase>> ELSE <<>>
      Patterns(core_words) ==
        AddWords(AddBigrams(Phrase(core_words, Join(<<" ">>, Take(core_words, 3))),
                            core_words, 1),
                 core_words, 1)
      Core(words) == Patterns(SelectSeq(words, IsCore))
      Clean(lowered) ==
        Core(Split([i \in 1..Len(lowered) |->
                      IF lowered[i] \in WordChars \/ IsSpace(lowered[i]) THEN lowered[i]
                      ELSE " "]))
  IN  Take(Clean(Lower(title)), 5)

\* filter_quality_anchors(anchors)
filter_quality_anchors(anchors) == SelectSeq(anchors, is_quality_anchor)

\* A candidate: a dict with title and url; keys lists the keys it holds
Candidate(title, url) ==
  [title |-> title, url |-> url, relevance_score |-> 0, anchor_patterns |-> <<>>,
   anti_patterns |-> <<>>, semantic_intent |-> <<>>, keys |-> {"title", "url"}]

\* A variant of Fallback that passes the deterministic patterns through the
\* quality filter, as the scoring loop does
FallbackFiltered(candidates) ==
  [k \in 1..Len(candidates) |->
     [candidates[k] EXCEPT !.anchor_patterns =
                             filter_quality_anchors(extract_anchor_patterns(candidates[k].title)),
                           !.anti_patterns = <<>>,
                           !.semantic_intent = <<>>,
                           !.keys = @ \cup {"anchor_patterns", "anti_patterns",
                                            "semantic_intent"}]]

\* the fall-back loop "for c in candidates": the deterministic patterns, no
\* anti-patterns, no intent
Fallback(candidates) ==
  [k \in 1..Len(candidates) |->
     [candidates[k] EXCEPT !.anchor_patterns = extract_anchor_patterns(candidates[k].title),
                           !.anti_patterns = <<>>,
                           !.semantic_intent = <<>>,
                           !.keys = @ \cup {"anchor_patterns", "anti_patterns",
                                            "semantic_intent"}]]

RECURSIVE Relevant(_, _)
\* "for candidate, evaluation in zip(candidates, evaluations)": the list relevant
Relevant(candidates, evaluations) ==
  LET candidate == Head(candidates)
      evaluation == Head(evaluations)
      Kept(quality_anchors) ==
        IF quality_anchors = <<>> THEN <<>>
        ELSE <<[candidate EXCEPT !.relevance_score = evaluation.score,
                                 !.anchor_patterns = quality_anchors,
                                 !.anti_patterns = evaluation.anti,
                                 !.semantic_intent = evaluation.intent,
                                 !.keys = @ \cup {"relevance_score", "anchor_patterns",
                                                  "anti_patterns", "semantic_intent"}]>>
      Quality(from_ai) ==
        Kept(IF from_ai # <<>> THEN from_ai
             ELSE filter_quality_anchors(extract_anchor_patterns(candidate.title)))
  IN  IF candidates = <<>> THEN <<>>
      ELSE (IF evaluation.score >= 8 THEN Quality(filter_quality_anchors(evaluation.anchors))
            ELSE <<>>)
           \o Relevant(Tail(candidates), Tail(evaluations))

\* score_link_relevance(source_title, source_excerpt, candidates) under the answer
\* resp of the judgment service: a non-200 status, a raised exception, a body
\* json.loads rejects, a JSON value that is no list, or a JSON list of evaluations
score_link_relevance(candidates, resp) ==
  IF candidates = <<>> THEN <<>>
  ELSE IF resp.kind \in {"status", "exception", "unparsable"} THEN Fallback(candidates)
  ELSE IF resp.kind # "list" \/ Len(resp.vals) # Len(candidates) THEN Fallback(candidates)
  ELSE Relevant(candidates, resp.vals)

-----------------------------------------------------------------------------
(* Candidate Finder: get_internal_link_suggestions *)

\* the hard cap on limit
SuggestionsCap == 15

\* LINK_SUGGESTIONS_LIMIT of config: the default of limit
LINK_SUGGESTIONS_LIMIT == 8

\* min(a, b)
Min(a, b) == IF a < b THEN a ELSE b

\* limit = min(args.get("limit", LINK_SUGGESTIONS_LIMIT), 15)
SuggestLimit(args) == Min(Get(args, "limit", LINK_SUGGESTIONS_LIMIT), SuggestionsCap)

\* a row of blog_posts with its category: blog_categories(slug) is cat_slug, <<>>
\* for a post without category
Post(slug, title, category_id, cat_slug, published) ==
  [slug |-> slug, title |-> title, category_id |-> category_id, cat_slug |-> cat_slug,
   published |-> published]

\* status=eq.published
Published(catalog) == SelectSeq(catalog, LAMBDA post : post.published)

\* total_posts: the count the content-range header gives, 0 without the header
TotalPosts(catalog, range) == IF range = "ok" THEN Len(Published(catalog)) ELSE 0

\* a catalog without a published post
CatalogEmpty(total_posts) == total_posts < 1

\* a catalog too small for internal linking
CatalogTooSmall(total_posts) == total_posts < 3

\* base_url on a catalog kept newest first: published posts, without exclude_slug
BasePosts(catalog, exclude_slug) ==
  SelectSeq(Published(catalog),
            LAMBDA post : exclude_slug = <<>> \/ post.slug # exclude_slug)

\* same_category_posts: category_id=eq.{category_id}&order=created_at.desc&limit={limit}
SameCategoryPosts(base, category_id, limit, status) ==
  IF category_id # "" /\ status = "ok"
  THEN Take(SelectSeq(base, LAMBDA post : post.category_id = category_id), limit)
  ELSE <<>>

\* title_matches: title=ilike.*{keyword}*&order=created_at.desc&limit={limit}
TitleMatches(base, keyword, limit, status) ==
  IF status = "ok"
  THEN Take(SelectSeq(base, LAMBDA post : Contains(Lower(post.title), keyword)), limit)
  ELSE <<>>

RECURSIVE AddUnseen(_, _)
\* "for post in posts: if post['slug'] not in seen_slugs: ... combined.append(post)"
AddUnseen(combined, posts) ==
  IF posts = <<>> THEN combined
  ELSE AddUnseen(IF \E k \in 1..Len(combined) : combined[k].slug = Head(posts).slug
                 THEN combined ELSE Append(combined, Head(posts)),
                 Tail(posts))

\* combined without the cut at limit
CombinedUncut(same_category_posts, title_matches, limit) ==
  AddUnseen(AddUnseen(<<>>, same_category_posts), title_matches)

\* combined[:limit]
Combined(same_category_posts, title_matches, limit) ==
  Take(AddUnseen(AddUnseen(<<>>, same_category_posts), title_matches), limit)

\* scoring_candidates
ScoringCandidates(combined) ==
  [k \in 1..Len(combined) |->
     [title |-> combined[k].title, slug |-> combined[k].slug, relevance_score |-> 0,
      anchor_patterns |-> <<>>, anti_patterns |-> <<>>, semantic_intent |-> <<>>,
      keys |-> {"title", "slug"}]]

\* slug_to_scored[slug]
SlugToScored(scored_candidates, slug) ==
  scored_candidates[Largest({k \in 1..Len(scored_candidates) :
                               scored_candidates[k].slug = slug})]

\* suggestions
Suggestions(combined, scored_candidates) ==
  LET Built(post, entry) ==
        [url |-> build_internal_url(INTERNAL_LINK_PATTERN, post.slug, post.cat_slug),
         title |-> post.title,
         anchor_patterns |-> Get(entry, "anchor_patterns", <<>>),
         relevance_score |-> Get(entry, "relevance_score", 7),
         anti_patterns |-> entry.anti_patterns,
         semantic_intent |-> entry.semantic_intent]
      kept == SelectSeq(combined,
                        LAMBDA post : \E k \in 1..Len(scored_candidates) :
                                        scored_candidates[k].slug = post.slug)
  IN  [k \in 1..Len(kept) |-> Built(kept[k], SlugToScored(scored_candidates, kept[k].slug))]

\* max_links of the guidance, 0 for None
MaxLinks(total_posts) ==
  IF total_posts < 5 THEN 1
  ELSE IF total_posts < 15 THEN 2
  ELSE IF total_posts < 30 THEN 3
  ELSE IF total_posts < 50 THEN 4
  ELSE 0

\* what get_internal_link_suggestions returns: ok is "not is_error", skip is
\* skip_internal_links
Suggested(ok, msg, skip, suggestions, max_links) ==
  [ok |-> ok, msg |-> msg, skip |-> skip, suggestions |-> suggestions,
   max_internal_links |-> max_links]

\* get_internal_link_suggestions up to the scoring call: stage "return" with what
\* it returns, or stage "score" with the candidates it hands to the Scorer
SuggestFind(args, catalog, env) ==
  LET Return(ok, msg, skip, reqs) ==
        [stage |-> "return", result |-> Suggested(ok, msg, skip, <<>>, 0),
         requests |-> reqs, combined |-> <<>>, total_posts |-> 0]
      Merged(total_posts, reqs, combined) ==
        IF combined = <<>>
        THEN [Return(TRUE, "No semantically relevant posts found", TRUE, reqs)
                EXCEPT !.total_posts = total_posts]
        ELSE [stage |-> "score", result |-> Suggested(TRUE, "", FALSE, <<>>, 0),
              requests |-> reqs \o <<"POST scoring">>, combined |-> combined,
              total_posts |-> total_posts]
      Queried(total_posts, category_id, limit, keyword, base) ==
        IF category_id # "" /\ env.cat = "raise"
        THEN Return(FALSE, "Error: exception", FALSE, <<"GET count", "GET category">>)
        ELSE IF env.title = "raise"
        THEN Return(FALSE, "Error: exception", FALSE,
                    <<"GET count">> \o (IF category_id # "" THEN <<"GET category">> ELSE <<>>)
                      \o <<"GET title">>)
        ELSE Merged(total_posts,
                    <<"GET count">> \o (IF category_id # "" THEN <<"GET category">> ELSE <<>>)
                      \o <<"GET title">>,
                    Combined(SameCategoryPosts(base, category_id, limit, env.cat),
                             TitleMatches(base, keyword, limit, env.title), limit))
      Counted(topic, total_posts) ==
        IF CatalogTooSmall(total_posts)
        THEN Return(TRUE, "Catalog too small", TRUE, <<"GET count">>)
        ELSE Queried(total_posts, Get(args, "category_id", ""), SuggestLimit(args),
                     Split(Lower(topic))[1],
                     BasePosts(catalog, Get(args, "exclude_slug", <<>>)))
      Topic(topic) ==
        IF topic = <<>> THEN Return(FALSE, "Error: topic required", FALSE, <<>>)
        ELSE IF env.range = "raise"
        THEN Return(FALSE, "Error: exception", FALSE, <<"GET count">>)
        ELSE Counted(topic, TotalPosts(catalog, env.range))
  IN  Topic(Strip(Get(args, "topic", <<>>)))

\* get_internal_link_suggestions from the scoring call on, given what the
\* judgment service answered
SuggestScore(found, resp) ==
  LET Scored(scored_candidates) ==
        IF scored_candidates = <<>>
        THEN Suggested(TRUE, "No semantically relevant posts found", TRUE, <<>>, 0)
        ELSE Suggested(TRUE, "suggestions", FALSE,
                       Suggestions(found.combined, scored_candidates),
                       MaxLinks(found.total_posts))
  IN  IF found.stage = "return" THEN found.result
      ELSE Scored(score_link_relevance(ScoringCandidates(found.combined), resp))

\* get_internal_link_suggestions(args) on a catalog, under the answers env of the
\* store and of the judgment service
get_internal_link_suggestions(args, catalog, env) ==
  LET Found(found) == SuggestScore(found, env.score)
  IN  Found(SuggestFind(args, catalog, env))

-----------------------------------------------------------------------------
(* Bounds *)

\* insertions per apply_link_insertions call
MaxBatch == 2
\* invocations per behaviour
MaxCalls == 2
\* rows of the ledger table
MaxLedger == 6
\* candidates per score_link_relevance call
MaxCandidates == 2

-----------------------------------------------------------------------------
(* Inputs: phrases, URLs, articles, insertion requests *)

GripTips == <<"g","r","i","p"," ","t","i","p","s">>
SwingPath == <<"s","w","i","n","g"," ","p","a","t","h">>
Golf == <<"g","o","l","f">>
UrlG == <<"/","b","l","o","g","/","g">>
UrlS == <<"/","b","l","o","g","/","s">>
UrlF == <<"/","b","l","o","g","/","f">>

Block(id, type, data) == [id |-> id, type |-> type, data |-> data]

\* each anchor phrase once, in other casing, between other prose and other blocks
ArticleOnce ==
  << Block("b1", "heading", [text |-> <<"T","i","p","s">>]),
     Block("b2", "paragraph", [text |-> <<"U","s","e"," ","G","r","i","p"," ","T","i","p","s"," ","n","o","w","."," ","S","t","o","p">>]),
     Block("b3", "list", [items |-> <<<<"S","w","i","n","g"," ","P","a","t","h">>, <<"p","u","t","t">>>>]) >>

\* the anchor phrase twice in one block
ArticleTwice ==
  << Block("b1", "paragraph", [text |-> <<"G","r","i","p"," ","T","i","p","s","."," ","g","r","i","p"," ","t","i","p","s">>]) >>

\* the anchor phrase in two blocks
ArticleTwoBlocks ==
  << Block("b1", "list", [items |-> <<<<"a">>, <<"g","r","i","p"," ","t","i","p","s">>>>]),
     Block("b2", "callout", [text |-> <<"G","r","i","p"," ","T","i","p","s">>]) >>

\* links already present: two internal tags with one URL, an internal tag in an
\* accordion answer, an external tag, a button
ArticleLinked ==
  << Block("b1", "paragraph",
           [text |-> <<"<","a"," ","h","r","e","f","=","\"","/","b","l","o","g","/","g","\"",">","c","l","u","b"," ","c","a","r","e","<","/","a",">"," ","<","a"," ","h","r","e","f","=","\"","/","b","l","o","g","/","g","\"",">","g","r","i","p"," ","t","i","p","s","<","/","a",">">>]),
     Block("b2", "accordion",
           [items |-> <<[question |-> <<"q">>,
                         answer |-> <<"<","a"," ","h","r","e","f","=","\"","/","b","l","o","g","/","s","\"",">","s","w","i","n","g"," ","p","a","t","h","<","/","a",">">>]>>]),
     Block("b3", "callout",
           [text |-> <<"<","a"," ","h","r","e","f","=","\"","h","t","t","p",":","/","/","e",".","c","o","\""," ","t","a","r","g","e","t","=","\"","_","b","l","a","n","k","\""," ","r","e","l","=","\"","n","o","f","o","l","l","o","w","\"",">","s","i","t","e","<","/","a",">">>]),
     Block("b4", "button", [text |-> <<"g","o">>, url |-> UrlG, newTab |-> FALSE]) >>

\* no links yet; the anchor phrases stand in a heading, an accordion answer and a
\* button caption only
ArticleFaq ==
  << Block("b1", "heading", [text |-> <<"G","r","i","p"," ","T","i","p","s">>]),
     Block("b2", "accordion",
           [items |-> <<[question |-> <<"q">>,
                         answer |-> <<"T","r","y"," ","s","w","i","n","g"," ","p","a","t","h">>]>>]),
     Block("b3", "button", [text |-> GripTips, url |-> UrlF, newTab |-> FALSE]) >>

\* an internal link and a link whose href opens with "//": a host, no scheme
ArticleCdn ==
  << Block("b1", "paragraph",
           [text |-> LinkHtml(UrlG, GripTips) \o <<" ">>
                     \o LinkHtml(<<"/","/","e",".","c","o","/","x">>, <<"c","d","n">>)]) >>

Articles ==
  {ArticleOnce, ArticleTwice, ArticleTwoBlocks, ArticleLinked, ArticleFaq, ArticleCdn}

Insertion(anchor_text, url) ==
  [anchor_text |-> anchor_text, url |-> url, target_title |-> <<>>,
   anti_patterns |-> <<>>, block_id |-> "", keys |-> {"anchor_text", "url"}]

\* insertion requests: a quality anchor, the same with a target title (context
\* validation), a generic anchor, a second quality anchor
InsGrip == Insertion(GripTips, UrlG)
InsGripTitled ==
  [Insertion(GripTips, UrlG) EXCEPT !.target_title = <<"G","r","i","p">>,
                                    !.keys = {"anchor_text", "url", "target_title"}]
InsGolf == Insertion(Golf, UrlF)
InsSwing == Insertion(SwingPath, UrlS)

\* the insertion with anti-patterns: a list of phrases the anchor must not overlap
WithAnti(ins, anti_patterns) ==
  [ins EXCEPT !.anti_patterns = anti_patterns, !.keys = @ \cup {"anti_patterns"}]

\* insertion requests with anti-patterns: one the anchor contains (in other
\* casing), one that contains the anchor, one apart from the anchor, an empty
\* one before one the anchor contains
InsGripAntiIn == WithAnti(InsGripTitled, <<<<"G","r","i","p">>>>)
InsGripAntiOver == WithAnti(InsGrip, <<<<"b","e","s","t"," ","g","r","i","p"," ","t","i","p","s">>>>)
InsGripAntiOff == WithAnti(InsGrip, <<Golf>>)
InsGripAntiEmpty == WithAnti(InsGrip, <<<<>>, <<"g","r","i","p">>>>)

\* insertion requests that lack a field: no anchor_text, no url, no url with a
\* target title
InsNoAnchor == [Insertion(<<>>, UrlG) EXCEPT !.keys = {"url"}]
InsNoUrl == [Insertion(SwingPath, <<>>) EXCEPT !.keys = {"anchor_text"}]
InsNoUrlTitled == [InsGripTitled EXCEPT !.url = <<>>, !.keys = {"anchor_text", "target_title"}]

\* insertion requests for the context phase and the loop: a second titled one, a
\* titled one whose anchor is in no article, a titled one that names the block b2,
\* one whose anchor contains the anchor of InsGrip
InsSwingTitled ==
  [InsSwing EXCEPT !.target_title = <<"S","w","i","n","g">>,
                   !.keys = {"anchor_text", "url", "target_title"}]
InsShortTitled ==
  [Insertion(<<"s","h","o","r","t"," ","g","a","m","e">>, UrlF)
     EXCEPT !.target_title = <<"S","h","o","r","t">>,
            !.keys = {"anchor_text", "url", "target_title"}]
InsGripTitledB2 ==
  [InsGripTitled EXCEPT !.block_id = "b2",
                        !.keys = {"anchor_text", "url", "target_title", "block_id"}]
InsGripNow == Insertion(GripTips \o <<" ","n","o","w">>, UrlS)

\* the batches of insertions tried, none longer than MaxBatch
Batches ==
  {b \in {<<InsGrip>>, <<InsGripTitled>>, <<InsGolf>>, <<InsSwing>>,
          <<InsGrip, InsSwing>>, <<InsGolf, InsGrip>>, <<InsGrip, InsGrip>>,
          <<InsGripAntiIn>>, <<InsGripAntiOver>>, <<InsGripAntiOff>>,
          <<InsGripAntiEmpty>>, <<InsGripAntiIn, InsSwing>>,
          <<InsNoAnchor, InsGrip>>, <<InsNoUrl, InsGrip>>, <<InsNoUrlTitled, InsSwing>>,
          <<InsGripTitled, InsSwingTitled>>, <<InsShortTitled, InsSwingTitled>>,
          <<InsGripTitledB2>>, <<InsGripNow, InsGrip>>,
          <<InsSwing, InsGripTitled, InsGrip>>} : Len(b) <= MaxBatch}

\* args of apply_link_insertions: batches for the stored article, and the calls
\* with a missing post_id, an unknown post_id, no insertions
ApplyArgs ==
  {[post_id |-> PostId, insertions |-> b] : b \in Batches}
  \cup {[post_id |-> "", insertions |-> <<InsGrip>>],
        [post_id |-> "p9", insertions |-> <<InsGrip>>],
        [post_id |-> PostId, insertions |-> <<>>]}

\* the sequences over S of length n
RECURSIVE SeqsOf(_, _)
SeqsOf(S, n) ==
  IF n = 0 THEN {<<>>} ELSE {Append(q, x) : q \in SeqsOf(S, n - 1), x \in S}

\* answers of the judgment service to a context-validation request for n contexts:
\* none (a status other than 200), a list of n verdicts, a list with no verdict, a
\* list of n + 1 verdicts
JudgeAnswers(n) ==
  {[kind |-> "status", vals |-> <<>>], [kind |-> "list", vals |-> <<>>],
   [kind |-> "list", vals |-> [k \in 1..(n + 1) |-> FALSE]]}
  \cup {[kind |-> "list", vals |-> v] : v \in SeqsOf(BOOLEAN, n)}

\* answers of the store to a read or a content write whose failure ends the call
CallAnswers == {"ok", "status"}

\* the sequences over S of length at most n
SeqsUpTo(S, n) == UNION {SeqsOf(S, k) : k \in 0..n}

\* candidates: a title with five patterns, a title with none, a title whose only
\* patterns are single words
Candidates ==
  {Candidate(<<"G","o","l","f"," ","S","w","i","n","g"," ","B","a","s","i","c","s">>, UrlS),
   Candidate(<<"G","r","i","p"," ","T","i","p","s">>, UrlG),
   Candidate(<<"H","o","w"," ","t","o"," ","F","i","x"," ","Y","o","u","r"," ","S","l","i","c","e"," ","-"," ","C","o","m","p","l","e","t","e"," ","G","u","i","d","e">>, UrlF)}

\* evaluations of the judgment service: relevant with a quality anchor and an
\* anti-pattern, relevant without anchors, not relevant
Evaluations ==
  {[score |-> 9, anchors |-> <<GripTips>>, anti |-> <<Golf>>, intent |-> <<"i">>],
   [score |-> 8, anchors |-> <<Golf>>, anti |-> <<>>, intent |-> <<>>],
   [score |-> 7, anchors |-> <<SwingPath>>, anti |-> <<>>, intent |-> <<"i">>]}

\* answers of the judgment service to the scoring request for n candidates
ScoreAnswers(n) ==
  {[kind |-> k, vals |-> <<>>] : k \in {"status", "exception", "unparsable", "nonlist"}}
  \cup {[kind |-> "list", vals |-> v] : v \in SeqsUpTo(Evaluations, n + 1)}

-----------------------------------------------------------------------------
(* The state machine *)

\* what the previous invocation was: its operation and arguments, whether it
\* succeeded, whether it wrote the content, whether every store request it sent
\* succeeded, the content it started from
NoPrev ==
  [op |-> "none", args |-> <<>>, ok |-> FALSE, wrote |-> FALSE, clean |-> FALSE,
   pre |-> <<>>]

\* the store's answers to one invocation: clean tells that it answered every
\* request with success, rewrote that the ledger requests of the invocation (the
\* delete, and the insert where there is one) were sent and succeeded
Answers(clean, rewrote) == [clean |-> clean, rewrote |-> rewrote]

\* the record of an invocation
Last(op, args, pre, preLedger, judge, answers, out) ==
  [op |-> op, args |-> args, pre |-> pre, preLedger |-> preLedger, judge |-> judge,
   clean |-> answers.clean, rewrote |-> answers.rewrote, wrote |-> out.wrote, result |-> out.result, log |-> out.log,
   requests |-> out.requests,
   prev |-> [op |-> last.op, args |-> last.args, ok |-> last.result.ok,
             wrote |-> last.wrote, clean |-> last.clean, pre |-> last.pre]]

\* a stored article whose ledger was never written, or was written by save_post_links
Init ==
  /\ content \in Articles
  /\ ledger \in {{}, save_post_links(PostId, content, {}, NoSync).ledger}
  /\ calls = 0
  /\ last = [op |-> "none", args |-> <<>>, pre |-> <<>>, preLedger |-> {}, judge |-> NoAnswer,
             clean |-> FALSE, rewrote |-> FALSE, wrote |-> FALSE, result |-> Result(FALSE, "", <<>>, <<>>, 0), log |-> NoLog,
             requests |-> <<>>, prev |-> NoPrev]
  /\ scored = <<>>
  /\ inflight = <<>>
  /\ probe = <<>>

\* whether req is among the requests an invocation sent
Sent(out, req) == \E i \in 1..Len(out.requests) : out.requests[i] = req

\* the store after an invocation
Commit(op, args, judge, answers, out) ==
  /\ Cardinality(out.ledger) <= MaxLedger
  /\ content' = out.content
  /\ ledger' = out.ledger
  /\ calls' = calls + 1
  /\ last' = Last(op, args, content, ledger, judge, answers, out)
  /\ UNCHANGED <<scored, probe, inflight>>

\* apply_link_insertions(args); the collaborators answer the requests it sends
Apply ==
  /\ calls < MaxCalls
  /\ \E args \in ApplyArgs :
     \E get \in IF args.post_id = "" \/ args.insertions = <<>> THEN {"ok"} ELSE CallAnswers :
       LET Persist(judge, m, links) ==
             \E patch \in IF m.stage = "write" THEN CallAnswers ELSE {"ok"} :
             \E sync \in IF m.stage = "write" /\ patch = "ok" THEN SyncEnvs(links)
                         ELSE {NoSync} :
               Commit("apply", args, judge,
                      Answers(get = "ok" /\ patch = "ok" /\ sync = NoSync,
                              /\ m.stage = "write" /\ patch = "ok"
                              /\ sync.del = "ok" /\ sync.ins = "ok"),
                      ApplyPersist(content, ledger, args, m, links,
                                   [get |-> get, judge |-> judge, patch |-> patch,
                                    sync |-> sync]))
           Mutated(judge, m) ==
             Persist(judge, m, extract_links_from_content(m.content, args.post_id))
           Judge(f, ctxs) ==
             \E judge \in IF ApplyAsksJudge(f, ctxs) THEN JudgeAnswers(Asked(ctxs))
                          ELSE {NoAnswer} :
               Mutated(judge, ApplyMutateWith(content, f, ctxs, judge))
           Filtered(f) == Judge(f, ApplyContexts(content, f))
       IN  Filtered(ApplyFilters(content, args, get))

\* save_post_links(post_id, content) on the stored content
Sync ==
  /\ calls < MaxCalls
  /\ LET Saved(env, r) ==
           Commit("sync", PostId, NoAnswer,
                  Answers(env = NoSync,
                          /\ Sent(r, "POST blog_post_links")
                          /\ env.del = "ok" /\ env.ins = "ok"),
                  Outcome(content, r.ledger, FALSE,
                          Result(r.done, "saved", <<>>, <<>>, r.saved), NoLog, r.requests))
         Extracted(links) ==
           \E env \in SyncEnvs(links) : Saved(env, SaveLinks(links, PostId, ledger, env))
     IN  Extracted(extract_links_from_content(content, PostId))

\* remove_internal_links_from_post(post_id)
RemoveAll ==
  /\ calls < MaxCalls
  /\ LET Done(post_id, env, out) ==
           /\ ~Sent(out, "PATCH blog_posts") => env.patch = "ok"
           /\ ~Sent(out, "DELETE blog_post_links internal") => env.del = "ok"
           /\ Commit("remove_all", post_id, NoAnswer,
                     Answers(env.get = "ok" /\ env.patch = "ok" /\ env.del = "ok",
                             /\ Sent(out, "DELETE blog_post_links internal")
                             /\ env.del = "ok"), out)
         Stripped(rs) ==
           \E post_id \in {PostId, "p9"} :
           \E env \in [get : CallAnswers, patch : CallAnswers, del : StoreAnswers] :
             Done(post_id, env, RemoveAllWith(rs, content, ledger, post_id, env))
     IN  Stripped(StripAll(content))

\* remove_single_link_by_id(link_id)
RemoveOne ==
  /\ calls < MaxCalls
  /\ \E link_id \in {r.id : r \in ledger} \cup {0} :
       LET Done(env, out) ==
             /\ ~Sent(out, "GET blog_posts") => env.get = "ok"
             /\ ~Sent(out, "PATCH blog_posts") => env.patch = "ok"
             /\ ~Sent(out, "DELETE blog_post_links id") => env.del = "ok"
             /\ Commit("remove_one", link_id, NoAnswer,
                       Answers(/\ env.getlink = "ok" /\ env.get = "ok"
                               /\ env.patch = "ok" /\ env.del = "ok",
                               /\ Sent(out, "DELETE blog_post_links id")
                               /\ env.del = "ok"), out)
           Tried(rs) ==
             \E env \in [getlink : CallAnswers, get : CallAnswers, patch : CallAnswers,
                         del : StoreAnswers] :
               Done(env, RemoveOneWith(rs, content, ledger, link_id, env))
       IN  Tried(StripOne(content, LinkRecord(ledger, link_id).url))

Next == Apply \/ Sync \/ RemoveAll \/ RemoveOne

Spec == Init /\ [][Next]_vars

-----------------------------------------------------------------------------
(* The Relevance Scorer on its own: it reads and writes no stored state *)

InitScore ==
  /\ content = <<>>
  /\ ledger = {}
  /\ calls = 0
  /\ last = [op |-> "none"]
  /\ scored = [candidates |-> <<>>, resp |-> NoAnswer, result |-> <<>>, asked |-> FALSE]
  /\ probe = <<>>
  /\ inflight = <<>>

\* score_link_relevance(source_title, source_excerpt, candidates); the judgment
\* service is asked unless there is no candidate
Score ==
  \E candidates \in SeqsUpTo(Candidates, MaxCandidates) :
  \E resp \in IF candidates = <<>> THEN {NoAnswer} ELSE ScoreAnswers(Len(candidates)) :
    /\ calls = 0
    /\ calls' = 1
    /\ scored' = [candidates |-> candidates, resp |-> resp,
                  result |-> score_link_relevance(candidates, resp),
                  asked |-> candidates # <<>>]
    /\ UNCHANGED <<content, ledger, last, probe, inflight>>

NextScore == Score

SpecScore == InitScore /\ [][NextScore]_vars

-----------------------------------------------------------------------------
(* The Anchor Quality Filter on its own: a function of the anchor alone *)

\* the longest anchor tried, in words
MaxWords == 3

\* words of the anchors tried: lower-case and capitalised words, a short word, a digit
AnchorWords ==
  { <<"g","o","l","f">>, <<"G","o","l","f">>, <<"t","i","p","s">>, <<"T","h","e">>,
    <<"t","h","e">>, <<"M","a","s","t","e","r","s">>, <<"g","r","i","p">>,
    <<"G","r","i","p">>, <<"p","r","e","s","s","u","r","e">>,
    <<"m","i","s","t","a","k","e","s">>, <<"a","n">>, <<"8">> }

\* the anchors tried: up to MaxWords words joined by one blank, bare or with a
\* blank before or after
Anchors ==
  {lead \o Join(<<" ">>, ws) \o trail :
     lead \in {<<>>, <<" ">>}, trail \in {<<>>, <<" ">>},
     ws \in SeqsUpTo(AnchorWords, MaxWords)}

InitQuality ==
  /\ content = <<>>
  /\ ledger = {}
  /\ calls = 0
  /\ last = [op |-> "none"]
  /\ scored = <<>>
  /\ inflight = <<>>
  /\ probe \in {[anchor |-> a, verdict |-> FALSE, done |-> FALSE] : a \in Anchors}

\* is_quality_anchor(anchor)
CheckAnchor ==
  /\ ~probe.done
  /\ probe' = [probe EXCEPT !.verdict = is_quality_anchor(probe.anchor), !.done = TRUE]
  /\ UNCHANGED <<content, ledger, calls, last, scored, inflight>>

NextQuality == CheckAnchor

SpecQuality == InitQuality /\ [][NextQuality]_vars

-----------------------------------------------------------------------------
(* The Candidate Finder on its own: it reads the catalog and writes nothing *)

\* the posts of the largest catalog tried: more than the hard cap on limit
MaxCatalog == 17

SlugLetters ==
  <<"a","b","c","d","e","f","g","h","i","j","k","l","m","n","o","p","q","r","s","t">>

GripPressure == <<"G","r","i","p"," ","P","r","e","s","s","u","r","e">>

PostA == Post(<<"a">>, <<"G","r","i","p"," ","T","i","p","s"," ","G","u","i","d","e">>, "c1", <<"t">>, TRUE)
PostB == Post(<<"b">>, <<"G","o","l","f"," ","S","w","i","n","g"," ","B","a","s","i","c","s">>, "c1", <<"t">>, TRUE)
PostC == Post(<<"c">>, <<"G","r","i","p"," ","P","r","e","s","s","u","r","e"," ","D","r","i","l","l">>, "c2", <<"d">>, TRUE)
PostD == Post(<<"d">>, <<"P","u","t","t","i","n","g"," ","G","r","i","p">>, "", <<>>, TRUE)
PostDraft == Post(<<"e">>, <<"G","r","i","p"," ","D","r","a","f","t">>, "c1", <<"t">>, FALSE)

\* catalogs, newest post first: two published posts and a draft; four published
\* posts of two categories and none, and a draft; MaxCatalog posts of one category
Catalogs ==
  { <<PostA, PostDraft, PostB>>,
    <<PostD, PostA, PostDraft, PostC, PostB>>,
    [k \in 1..MaxCatalog |->
       Post(<<"k", SlugLetters[k]>>,
            <<"G","r","i","p"," ","T","i","p","s"," ", SlugLetters[k]>>, "c1", <<"t">>, TRUE)] }

\* args of get_internal_link_suggestions: no topic or a topic; with or without
\* category_id, exclude_slug, limit
SuggestArgs ==
  {[topic |-> topic, category_id |-> category_id, exclude_slug |-> exclude_slug,
    limit |-> limit,
    keys |-> {"topic", "category_id", "exclude_slug"}
               \cup (IF limit = 0 THEN {} ELSE {"limit"})] :
     topic \in {<<" ">>, GripPressure, Golf},
     category_id \in {"", "c1"},
     exclude_slug \in {<<>>, <<"a">>},
     limit \in {0, 2, 20}}

\* answers of the store to the three reads, at most one of them a failure
SuggestEnvs ==
  LET AllOk == [range |-> "ok", cat |-> "ok", title |-> "ok"]
  IN  {AllOk, [AllOk EXCEPT !.range = "missing"], [AllOk EXCEPT !.range = "raise"],
       [AllOk EXCEPT !.cat = "status"], [AllOk EXCEPT !.cat = "raise"],
       [AllOk EXCEPT !.title = "status"], [AllOk EXCEPT !.title = "raise"]}

\* answers of the judgment service to the scoring request for n candidates: a
\* status other than 200, one evaluation too few, the same evaluation for every
\* candidate, relevant and not relevant in turn
SuggestScoreAnswers(n) ==
  {[kind |-> "status", vals |-> <<>>]}
  \cup {[kind |-> "list", vals |-> [k \in 1..m |-> e]] : m \in {n - 1, n}, e \in Evaluations}
  \cup {[kind |-> "list",
         vals |-> [k \in 1..n |-> CHOOSE e \in Evaluations :
                                    e.score = IF k % 2 = 1 THEN 7 ELSE 9]]}

InitSuggest ==
  /\ content = <<>>
  /\ ledger = {}
  /\ calls = 0
  /\ last = [op |-> "none"]
  /\ scored = <<>>
  /\ inflight = <<>>
  /\ probe = <<>>

\* get_internal_link_suggestions(args); the store and the judgment service answer
\* the requests it sends
Suggest ==
  /\ calls = 0
  /\ calls' = 1
  /\ \E args \in SuggestArgs :
     \E catalog \in Catalogs :
     \E env \in SuggestEnvs :
       LET Found(found) ==
             \E resp \in IF found.stage = "score"
                         THEN SuggestScoreAnswers(Len(found.combined)) ELSE {NoAnswer} :
               last' = [op |-> "suggest", args |-> args, catalog |-> catalog,
                        env |-> env, requests |-> found.requests,
                        asked |-> found.stage = "score",
                        candidates |-> ScoringCandidates(found.combined),
                        resp |-> resp, result |-> SuggestScore(found, resp)]
       IN  Found(SuggestFind(args, catalog, env))
  /\ UNCHANGED <<content, ledger, scored, probe, inflight>>

NextSuggest == Suggest

SpecSuggest == InitSuggest /\ [][NextSuggest]_vars

-----------------------------------------------------------------------------
(* The internal URL shape on its own: a URL built from a slug and read back *)

\* the longest slug tried, in characters
MaxSlug == 2

\* URL templates: the slug alone, the slug below a category, each with and
\* without an extension after the slug
Templates ==
  { INTERNAL_LINK_PATTERN,
    <<"/","b","l","o","g","/">> \o SlugPlaceholder \o <<".","h","t","m","l">>,
    <<"/","b","l","o","g","/">> \o CategoryPlaceholder \o <<"/">> \o SlugPlaceholder,
    <<"/">> \o CategoryPlaceholder \o <<"/">> \o SlugPlaceholder,
    <<"/">> \o CategoryPlaceholder \o <<"/">> \o SlugPlaceholder \o <<".","h","t","m","l">> }

\* slugs: letters and hyphens, at least one character
Slugs == UNION {SeqsOf({"a", "b", "-"}, n) : n \in 1..MaxSlug}

\* category slugs: none, or a slug
CategorySlugs == {<<>>, <<"a">>, <<"b","-","a">>}

InitUrl ==
  /\ content = <<>>
  /\ ledger = {}
  /\ calls = 0
  /\ last = [op |-> "none"]
  /\ scored = <<>>
  /\ inflight = <<>>
  /\ probe \in {[pattern |-> pattern, slug |-> slug, category_slug |-> category_slug,
                 url |-> <<>>, back |-> None, done |-> FALSE] :
                  pattern \in Templates, slug \in Slugs, category_slug \in CategorySlugs}

\* extract_slug_from_internal_url(build_internal_url(slug, category_slug))
RoundTrip ==
  /\ ~probe.done
  /\ LET Built(url) ==
           probe' = [probe EXCEPT !.url = url,
                                  !.back = extract_slug_from_internal_url(probe.pattern, url),
                                  !.done = TRUE]
     IN  Built(build_internal_url(probe.pattern, probe.slug, probe.category_slug))
  /\ UNCHANGED <<content, ledger, calls, last, scored, inflight>>

NextUrl == RoundTrip

SpecUrl == InitUrl /\ [][NextUrl]_vars

-----------------------------------------------------------------------------
(* The two batching handlers side by side: the Applier on a stored article, the
   Candidate Finder on a catalog *)

\* a stored article, or the Candidate Finder before its call
InitBatch == Init \/ InitSuggest

NextBatch ==
  \/ content # <<>> /\ Apply
  \/ content = <<>> /\ Suggest

SpecBatch == InitBatch /\ [][NextBatch]_vars

-----------------------------------------------------------------------------
(* Overlapping invocations of apply_link_insertions on one article: every await
   of the handler is a point where another invocation can run *)

\* invocations in flight at once
MaxOverlap == 2

Procs == 1..MaxOverlap

\* args of the overlapping invocations
RaceArgs == {[post_id |-> PostId, insertions |-> b] : b \in {<<InsGrip>>, <<InsSwing>>}}

\* an invocation that has not started
Idle == [pc |-> "idle", args |-> <<>>, read |-> <<>>, m |-> <<>>, stamp |-> 0,
         result |-> Result(FALSE, "", <<>>, <<>>, 0)]

\* A variant of the content write that the store refuses when the content is no
\* longer the one the invocation read
StoredAfterGuardedWrite(stored, read, mutated) ==
  IF stored = read THEN mutated ELSE stored

\* the stored content after the PATCH of an invocation that read the content
\* read and mutated its copy: the body of the request replaces what is stored
StoredAfterWrite(stored, read, mutated) == mutated

\* how many content writes there have been
Writes == Cardinality({p \in Procs : inflight[p].stamp > 0})

InitRace ==
  /\ content \in Articles
  /\ ledger \in {{}, save_post_links(PostId, content, {}, NoSync).ledger}
  /\ calls = 0
  /\ last = [op |-> "none"]
  /\ scored = <<>>
  /\ probe = <<>>
  /\ inflight = [p \in Procs |-> Idle]

\* the GET of the content, the filters and the loop over the copy in memory
RaceRead(p) ==
  /\ inflight[p].pc = "idle"
  /\ \E args \in RaceArgs :
       LET Mutated(m) ==
             inflight' = [inflight EXCEPT ![p] =
               [pc |-> IF m.stage = "write" THEN "write" ELSE "done",
                args |-> args, read |-> content, m |-> m, stamp |-> 0,
                result |-> Result(m.ok, m.msg, <<>>, m.failed, 0)]]
           Filtered(f) == Mutated(ApplyMutateWith(content, f, ApplyContexts(content, f), NoAnswer))
       IN  Filtered(ApplyFilters(content, args, "ok"))
  /\ UNCHANGED <<content, ledger, calls, last, scored, probe>>

\* the PATCH of the content
RaceWrite(p) ==
  /\ inflight[p].pc = "write"
  /\ content' = StoredAfterWrite(content, inflight[p].read, inflight[p].m.content)
  /\ inflight' = [inflight EXCEPT ![p].pc = "delete", ![p].stamp = Writes + 1]
  /\ UNCHANGED <<ledger, calls, last, scored, probe>>

\* the DELETE of save_post_links
RaceDelete(p) ==
  /\ inflight[p].pc = "delete"
  /\ ledger' = {r \in ledger : r.post_id # inflight[p].args.post_id}
  /\ inflight' = [inflight EXCEPT ![p].pc = "insert"]
  /\ UNCHANGED <<content, calls, last, scored, probe>>

\* the POST of save_post_links and the report of the invocation
RaceInsert(p) ==
  /\ inflight[p].pc = "insert"
  /\ LET Saved(links) ==
           /\ ledger' = InsertRows(ledger, resolve_internal_link_post_ids(links, "ok"))
           /\ inflight' = [inflight EXCEPT
                ![p].pc = "done",
                ![p].result = Result(TRUE, "applied", inflight[p].m.applied,
                                     inflight[p].m.failed, Len(links))]
     IN  Saved(extract_links_from_content(inflight[p].m.content, inflight[p].args.post_id))
  /\ UNCHANGED <<content, calls, last, scored, probe>>

NextRace == \E p \in Procs : RaceRead(p) \/ RaceWrite(p) \/ RaceDelete(p) \/ RaceInsert(p)

SpecRace == InitRace /\ [][NextRace]_vars

-----------------------------------------------------------------------------
(* Properties: vocabulary *)

\* the links of the content c, as extract_links_from_content reads them
LinksIn(c) == extract_links_from_content(c, PostId)

\* how many links of c show the anchor phrase as their visible text
LinksFor(c, anchor) ==
  LET Count(links) ==
        Cardinality({i \in 1..Len(links) : Lower(links[i].anchor_text) = Lower(anchor)})
  IN  Count(LinksIn(c))

\* every text a block holds
BlockTexts(block) ==
  IF block.type \in {"heading", "paragraph", "callout", "button"} THEN <<block.data.text>>
  ELSE IF block.type = "list" THEN block.data.items
  ELSE IF block.type = "accordion"
  THEN Flatten([i \in 1..Len(block.data.items) |->
                  <<block.data.items[i].question, block.data.items[i].answer>>])
  ELSE <<>>

\* the texts of a block the Applier scans
ScannedTexts(block) ==
  IF block.type \in {"paragraph", "callout"} THEN <<block.data.text>>
  ELSE IF block.type = "list" THEN block.data.items
  ELSE <<>>

\* the places (block, text, position) of c where the anchor phrase stands, in any casing
Occurrences(c, anchor) ==
  {<<k, i, p>> \in UNION {UNION {{<<k, i, q>> : q \in 1..Len(BlockTexts(c[k])[i])} :
                                   i \in 1..Len(BlockTexts(c[k]))} : k \in 1..Len(c)} :
     StartsAtLower(BlockTexts(c[k])[i], p, Lower(anchor))}

\* those of them the Applier scans
ScannedOccurrences(c, anchor) ==
  {<<k, i, p>> \in UNION {UNION {{<<k, i, q>> : q \in 1..Len(ScannedTexts(c[k])[i])} :
                                   i \in 1..Len(ScannedTexts(c[k]))} : k \in 1..Len(c)} :
     StartsAtLower(ScannedTexts(c[k])[i], p, Lower(anchor))}

\* whether one of the three filters printed the anchor as rejected
Rejected(log, anchor) ==
  \/ \E i \in 1..Len(log.anti) : log.anti[i].anchor = anchor
  \/ \E i \in 1..Len(log.quality) : log.quality[i].anchor = anchor
  \/ \E i \in 1..Len(log.context) : log.context[i].anchor = anchor

\* whether the result lists the anchor under failed as not found
ListedNotFound(result, anchor) ==
  \E i \in 1..Len(result.failed) :
    /\ result.failed[i].anchor_text = anchor
    /\ result.failed[i].reason = "text not found or already linked"

RECURSIVE Wrapped(_, _, _)
\* whether new is old with the span of each applied entry, one after the other,
\* replaced by <a href="url">the span itself</a>, and nothing else changed
Wrapped(old, new, applied) ==
  IF applied = <<>> THEN new = old
  ELSE \E p \in 1..Len(old) :
         /\ StartsAt(old, p, Head(applied).anchor_text)
         /\ Wrapped(SubSeq(old, 1, p - 1)
                      \o <<"<","a"," ","h","r","e","f","=","\"">> \o Head(applied).url
                      \o <<"\"",">">> \o Head(applied).anchor_text \o <<"<","/","a",">">>
                      \o SubSeq(old, p + Len(Head(applied).anchor_text), Len(old)),
                    new, Tail(applied))

\* whether the block new is the block old with only the applied entries' spans
\* wrapped: same id, same type, same other data, each scanned text changed by the
\* entries that hit it alone
BlockFrame(old, new, applied) ==
  /\ new.id = old.id
  /\ new.type = old.type
  /\ IF ScannedTexts(old) = <<>> THEN new = old /\ applied = <<>>
     ELSE /\ Len(ScannedTexts(new)) = Len(ScannedTexts(old))
          /\ IF old.type = "list"
             THEN [new.data EXCEPT !.items = old.data.items] = old.data
             ELSE [new.data EXCEPT !.text = old.data.text] = old.data
          /\ \E hit \in [1..Len(applied) -> 1..Len(ScannedTexts(old))] :
               \A i \in 1..Len(ScannedTexts(old)) :
                 Wrapped(ScannedTexts(old)[i], ScannedTexts(new)[i],
                         SelectSeq2(applied, {j \in 1..Len(applied) : hit[j] = i}))

\* whether the content post is the content pre with only the applied entries' spans
\* wrapped, each in the block the entry names
ContentFrame(pre, post, applied) ==
  /\ Len(post) = Len(pre)
  /\ \A j \in 1..Len(applied) : \E k \in 1..Len(pre) : pre[k].id = applied[j].block_id
  /\ \A k \in 1..Len(pre) :
       BlockFrame(pre[k], post[k],
                  SelectSeq2(applied, {j \in 1..Len(applied) : applied[j].block_id = pre[k].id}))

\* the rows of the ledger for the stored article
RowsOf(ldg) == {r \in ldg : r.post_id = PostId}

\* whether the rows of the ledger for the article are the links of the content c:
\* as many, with the same (url, anchor text)
LedgerMatches(c, ldg) ==
  LET Same(links) ==
        /\ Cardinality(RowsOf(ldg)) = Len(links)
        /\ {<<r.url, r.anchor_text>> : r \in RowsOf(ldg)}
             = {<<links[i].url, links[i].anchor_text>> : i \in 1..Len(links)}
  IN  Same(LinksIn(c))

\* the sequence without its i-th element
Without(seq, i) == SubSeq(seq, 1, i - 1) \o SubSeq(seq, i + 1, Len(seq))

\* a ledger row without the identifier the table gave it
Fields(r) == [r EXCEPT !.id = 0]

\* an apply_link_insertions call for the stored article with the one insertion ins
ApplyOf(args, ins) == args = [post_id |-> PostId, insertions |-> <<ins>>]

-----------------------------------------------------------------------------
(* Properties of the Link Applier *)

\* C1: first match wins, however often the insertion is retried: when
\* apply_link_insertions runs twice in a row with the same (anchor, url) on an
\* article that held the anchor at two places and no link for it, the second run
\* wraps nothing (the content stays as the first run left it) and the article
\* never holds two links for that anchor - whether the two places are in one
\* block or in two blocks.
C1_FirstMatchWins ==
  \A ins \in {InsGrip, InsSwing} :
    ( /\ last.op = "apply" /\ last.prev.op = "apply"
      /\ ApplyOf(last.args, ins) /\ ApplyOf(last.prev.args, ins)
      /\ last.clean /\ last.prev.clean
      /\ Cardinality(ScannedOccurrences(last.prev.pre, ins.anchor_text)) = 2
      /\ LinksFor(last.prev.pre, ins.anchor_text) = 0 )
    => /\ content = last.pre
       /\ LinksFor(content, ins.anchor_text) <= 1

\* C3: every insertion whose anchor phrase occurs
\* in no block of the content is listed under failed as not found (the store
\* answering every request), and a call in which nothing matched leaves the
\* content as it was and sends no content write.
C3_AbsentAnchorListedFailed ==
  (last.op = "apply" /\ last.clean /\ last.args.post_id = PostId)
  => /\ \A i \in 1..Len(last.args.insertions) :
          Occurrences(last.pre, last.args.insertions[i].anchor_text) = {}
          => ListedNotFound(last.result, last.args.insertions[i].anchor_text)
     /\ last.result.applied = <<>>
          => ~last.wrote /\ content = last.pre /\ ~Sent(last, "PATCH blog_posts")

C5_AppliedBlocksOnly ==
  last.op = "apply" => ContentFrame(last.pre, content, last.result.applied)

\* a call that applied two insertions, in two blocks
C5_Witness ==
  /\ last.op = "apply" /\ last.wrote
  /\ Len(last.result.applied) = 2
  /\ last.result.applied[1].block_id # last.result.applied[2].block_id
  /\ content # last.pre

-----------------------------------------------------------------------------
(* Properties of the Ledger and of Link Removal *)

\* C2: after every completed apply_link_insertions, remove_internal_links_from_post,
\* remove_single_link_by_id or save_post_links on the article, the store answering
\* every request with success, the ledger rows of the article are the anchor tags of
\* its content: same URL and anchor text for each, none missing, none extra. (For
\* the three operations that start from the ledger as it is, the ledger matched the
\* content before the operation.)
C2_LedgerEqualsTags ==
  ( /\ last.op \in {"apply", "remove_all", "remove_one", "sync"}
    /\ last.clean
    /\ \/ last.op = "sync"
       \/ last.result.ok /\ LedgerMatches(last.pre, last.preLedger) )
  => LedgerMatches(content, ledger)

\* C6: all or nothing: after apply_link_insertions and after either removal, the
\* content is as it was before the operation, or the content write and the ledger
\* rewrite of the operation have both completed.
C6_AllOrNothing ==
  last.op \in {"apply", "remove_all", "remove_one"}
  => \/ content = last.pre
     \/ last.wrote /\ last.rewrote

\* C7: round trip: on an article without internal links, apply_link_insertions
\* that wrote its links followed by remove_internal_links_from_post (the store
\* answering every request of the removal with success) leaves the content as it
\* was before the apply call, and no ledger row of the article with the URL of an
\* insertion of that call.
C7_ApplyThenRemoveRestores ==
  ( /\ last.op = "remove_all" /\ last.args = PostId /\ last.clean
    /\ last.prev.op = "apply" /\ last.prev.wrote
    /\ \A i \in 1..Len(LinksIn(last.prev.pre)) :
         LinksIn(last.prev.pre)[i].link_type # "internal" )
  => /\ content = last.prev.pre
     /\ \A i \in 1..Len(last.prev.args.insertions) :
          ~\E r \in RowsOf(ledger) : r.url = last.prev.args.insertions[i].url

\* C8: remove_single_link_by_id, for the ledger row with the identifier, removes
\* from the content exactly one anchor tag, one whose href is the row's url and
\* whose visible text is the row's anchor text, and deletes exactly that row: every
\* other tag and every other row is unchanged.
C8_RemovesExactlyThatLink ==
  (last.op = "remove_one" /\ last.clean /\ last.result.ok /\ last.wrote)
  => \A row \in last.preLedger :
       row.id = last.args
       => /\ ledger = last.preLedger \ {row}
          /\ \E i \in 1..Len(LinksIn(last.pre)) :
               /\ LinksIn(last.pre)[i].url = row.url
               /\ LinksIn(last.pre)[i].anchor_text = row.anchor_text
               /\ LinksIn(content) = Without(LinksIn(last.pre), i)

\* C9: Ledger Sync is idempotent: after save_post_links has run twice in a row on
\* the same content, the store answering every request with success, the ledger
\* holds as many rows, with the same field values, as after the first run.
C9_SyncIdempotent ==
  ( /\ last.op = "sync" /\ last.clean
    /\ last.prev.op = "sync" /\ last.prev.clean )
  => /\ content = last.pre
     /\ Cardinality(ledger) = Cardinality(last.preLedger)
     /\ {Fields(r) : r \in ledger} = {Fields(r) : r \in last.preLedger}

\* save_post_links ran twice on a content with internal and external links
C9_Witness ==
  /\ last.op = "sync" /\ last.clean
  /\ last.prev.op = "sync" /\ last.prev.clean
  /\ \E r \in ledger : r.link_type = "internal"
  /\ \E r \in ledger : r.link_type = "external"
  /\ last.result.count = Cardinality(ledger)

-----------------------------------------------------------------------------
(* Properties of the Relevance Scorer *)

\* C10: the Scorer fails open: when the judgment service answers with a status
\* other than success, a body that does not parse, a value that is no list, or a
\* list of another length than the candidates, score_link_relevance returns every
\* candidate, in the order given, each with the anchor patterns the deterministic
\* extractor makes of its title, no anti-patterns and an empty semantic intent.
C10_ScorerFailsOpen ==
  ( /\ scored.asked
    /\ \/ scored.resp.kind \in {"status", "unparsable", "nonlist"}
       \/ /\ scored.resp.kind = "list"
          /\ Len(scored.resp.vals) # Len(scored.candidates) )
  => /\ Len(scored.result) = Len(scored.candidates)
     /\ \A k \in 1..Len(scored.candidates) :
          /\ scored.result[k].title = scored.candidates[k].title
          /\ scored.result[k].url = scored.candidates[k].url
          /\ scored.result[k].anchor_patterns
               = extract_anchor_patterns(scored.candidates[k].title)
          /\ scored.result[k].anti_patterns = <<>>
          /\ scored.result[k].semantic_intent = <<>>

\* two candidates and a body that does not parse: both come back, the first with
\* patterns from its title
C10_Witness ==
  /\ scored.asked
  /\ scored.resp.kind = "unparsable"
  /\ Len(scored.candidates) = 2
  /\ Len(scored.result) = 2
  /\ scored.result[1].anchor_patterns # <<>>
  /\ scored.result[1].title # scored.result[2].title

\* whether the judgment service answered with one evaluation per candidate
WellFormed(s) ==
  /\ s.asked
  /\ s.resp.kind = "list"
  /\ Len(s.resp.vals) = Len(s.candidates)

\* whether one of the judged anchor phrases of an evaluation passes is_quality_anchor
HasQualityAnchor(evaluation) ==
  \E i \in 1..Len(evaluation.anchors) : is_quality_anchor(evaluation.anchors[i])

\* C11: when the judgment service returns one evaluation per candidate,
\* score_link_relevance returns, in input order, the candidates whose score is at
\* least 8 and that have a judged anchor phrase passing is_quality_anchor: a
\* candidate scoring at least 8 whose judged anchor phrases all fail the filter is
\* dropped; every anchor phrase of a returned candidate passes is_quality_anchor.
C11_ScoreGate ==
  WellFormed(scored)
  => LET kept == SelectSeq2(scored.candidates,
                            {k \in 1..Len(scored.candidates) :
                               /\ scored.resp.vals[k].score >= 8
                               /\ HasQualityAnchor(scored.resp.vals[k])})
     IN  /\ Len(scored.result) = Len(kept)
         /\ \A k \in 1..Len(kept) :
              /\ scored.result[k].title = kept[k].title
              /\ scored.result[k].url = kept[k].url
              /\ \A i \in 1..Len(scored.result[k].anchor_patterns) :
                   is_quality_anchor(scored.result[k].anchor_patterns[i])


-----------------------------------------------------------------------------
(* Properties of the Anchor Quality Filter *)

\* the positions where a word of s starts
WordStarts(s) == {p \in 1..Len(s) : ~IsSpace(s[p]) /\ (p = 1 \/ IsSpace(s[p - 1]))}

\* whether every word of s starts with a capital
AllCapitalized(s) == \A p \in WordStarts(s) : IsUpperChar(s[p])

\* the checks of the quality filter on an anchor whose length is measured as size
\* and which is compared with the generic phrases as phrase
RejectedBy(anchor, size, phrase) ==
  \/ Cardinality(WordStarts(anchor)) < 2
  \/ size < 8
  \/ phrase \in generic_terms
  \/ AllCapitalized(anchor) /\ Cardinality(WordStarts(anchor)) < 3

\* the three anchors the claim names, the store untouched
QualityExamples ==
  /\ probe.anchor = Golf => ~probe.verdict
  /\ probe.anchor = <<"T","h","e"," ","M","a","s","t","e","r","s">> => ~probe.verdict
  /\ probe.anchor = <<"g","r","i","p"," ","p","r","e","s","s","u","r","e"," ","m","i","s","t","a","k","e","s">>
       => probe.verdict
  /\ content = <<>> /\ ledger = {} /\ scored = <<>> /\ calls = 0

\* C12 as stated: is_quality_anchor rejects an anchor if and only if it has fewer
\* than 2 words, or fewer than 8 characters, or equals case-insensitively a
\* generic phrase, or all its words are capitalized and it has fewer than 3
\* words; "golf" and "The Masters" are rejected, "grip pressure mistakes" is
\* accepted; the verdict depends on the anchor alone and no state is touched.
C12_RejectsIff ==
  probe.done
  => /\ ~probe.verdict <=> RejectedBy(probe.anchor, Len(probe.anchor), Lower(probe.anchor))
     /\ QualityExamples

\* C12 amended: the same, with the character count and the comparison with the
\* generic phrases taken on the anchor without its surrounding blanks.
C12_RejectsIffTrimmed ==
  probe.done
  => /\ ~probe.verdict <=> RejectedBy(probe.anchor, Len(Strip(probe.anchor)),
                                      Lower(Strip(probe.anchor)))
     /\ QualityExamples

\* a two-word anchor of 8 characters, 7 without its leading blank, was rejected
C12_Witness ==
  /\ probe.done
  /\ probe.anchor = <<" ","g","r","i","p"," ","a","n">>
  /\ ~probe.verdict


\* whether the anchor of the insertion, in lower case, contains one of its
\* anti-patterns or is contained in one
OverlapsAnti(ins) ==
  \E k \in 1..Len(Get(ins, "anti_patterns", <<>>)) :
    \/ Contains(Lower(Get(ins, "anchor_text", <<>>)), Lower(ins.anti_patterns[k]))
    \/ Contains(Lower(ins.anti_patterns[k]), Lower(Get(ins, "anchor_text", <<>>)))

\* whether the anti-pattern prefilter printed the insertion as rejected
RejectedByAnti(log, ins) ==
  \E i \in 1..Len(log.anti) : log.anti[i].anchor = Get(ins, "anchor_text", None)

\* whether the result lists the insertion as applied
ListedApplied(result, ins) ==
  \E i \in 1..Len(result.applied) :
    /\ result.applied[i].anchor_text = ins.anchor_text
    /\ result.applied[i].url = ins.url

\* C13: in a call of apply_link_insertions that reaches the prefilter, an
\* insertion carrying anti-patterns is rejected by the prefilter if and only if
\* its anchor, compared case-insensitively, contains one of them or is contained
\* in one; an insertion without anti-patterns passes; a rejected insertion is not
\* applied, and when every insertion with a target title is rejected the judgment
\* service is not asked.
C13_AntiPrefilter ==
  (last.op = "apply" /\ last.clean /\ last.args.post_id = PostId)
  => /\ \A i \in 1..Len(last.args.insertions) :
          /\ RejectedByAnti(last.log, last.args.insertions[i])
               <=> OverlapsAnti(last.args.insertions[i])
          /\ RejectedByAnti(last.log, last.args.insertions[i])
               => ~ListedApplied(last.result, last.args.insertions[i])
     /\ (\A i \in 1..Len(last.args.insertions) :
           Get(last.args.insertions[i], "target_title", <<>>) # <<>>
             => RejectedByAnti(last.log, last.args.insertions[i]))
          => ~Sent(last, "POST judgment")


-----------------------------------------------------------------------------
(* Properties of the Candidate Finder *)

\* how many posts of the catalog are published
PublishedCount(catalog) == Cardinality({k \in 1..Len(catalog) : catalog[k].published})

\* a call with a topic whose count request the store answered with the count
CountedCall(l) ==
  /\ l.op = "suggest"
  /\ \E p \in 1..Len(l.args.topic) : ~IsSpace(l.args.topic[p])
  /\ l.env.range = "ok"

\* C14: when the count of published posts that get_internal_link_suggestions reads
\* is below 3, it returns the skip signal (skip_internal_links true) with an empty
\* suggestions list, having sent the count request alone: no candidate query and
\* no scoring request.
C14_SmallCatalogSkips ==
  (CountedCall(last) /\ PublishedCount(last.catalog) < 3)
  => /\ last.result.ok
     /\ last.result.skip
     /\ last.result.suggestions = <<>>
     /\ last.requests = <<"GET count">>
     /\ ~last.asked

\* a call with a topic and a category on the catalog of two published posts was skipped
C14_Witness ==
  /\ CountedCall(last)
  /\ PublishedCount(last.catalog) = 2
  /\ last.args.category_id = "c1"
  /\ last.result.skip
  /\ last.requests = <<"GET count">>


-----------------------------------------------------------------------------
(* Properties of the Context Validator *)

\* the insertions apply_link_insertions hands to validate_link_contexts_batch
SubmittedForContext(l) ==
  WithTitles(FilterQuality(FilterAnti(l.args.insertions)))

\* how many of them the judgment service is asked about
ItemsJudged(l) == Asked(Contexts(SubmittedForContext(l), l.pre))

\* C15: validate_link_contexts_batch fails open: when the judgment service
\* answers with an error, or with anything but a list of exactly one verdict per
\* submitted item, every insertion handed to it is approved: the context filter
\* rejects none.
C15_ValidatorFailsOpen ==
  ( /\ last.op = "apply"
    /\ Sent(last, "POST judgment")
    /\ \/ last.judge.kind # "list"
       \/ Len(last.judge.vals) # ItemsJudged(last) )
  => last.log.context = <<>>


-----------------------------------------------------------------------------
(* Properties of the Link Applier: every insertion has an outcome *)

\* whether the insertion lacks an anchor text or a URL
LacksField(ins) ==
  \/ Strip(Get(ins, "anchor_text", <<>>)) = <<>>
  \/ Strip(Get(ins, "url", <<>>)) = <<>>

\* whether the result lists the insertion under failed for a missing field
ListedMissingField(result, ins) ==
  \E i \in 1..Len(result.failed) :
    /\ result.failed[i].anchor_text = Strip(Get(ins, "anchor_text", <<>>))
    /\ result.failed[i].reason = "missing anchor_text or url"

\* whether the result or the log tells what became of the insertion
Reported(l, ins) ==
  \/ \E i \in 1..Len(l.result.applied) :
       Lower(l.result.applied[i].anchor_text) = Lower(Strip(Get(ins, "anchor_text", <<>>)))
  \/ \E i \in 1..Len(l.result.failed) :
       l.result.failed[i].anchor_text = Strip(Get(ins, "anchor_text", <<>>))
  \/ Rejected(l.log, Get(ins, "anchor_text", <<>>))

\* C16: in a batch passed to apply_link_insertions (the store answering every
\* request), an insertion that lacks an anchor text or a URL is listed under
\* failed with the missing-field reason and is not applied; the call does not end
\* in an error, and every other insertion of the batch is applied or reported.
C16_MissingFieldReported ==
  (last.op = "apply" /\ last.clean /\ last.args.post_id = PostId)
  => \A i \in 1..Len(last.args.insertions) :
       LacksField(last.args.insertions[i])
       => /\ last.result.ok
          /\ ListedMissingField(last.result, last.args.insertions[i])
          /\ \A k \in 1..Len(last.result.applied) :
               last.result.applied[k].url # Get(last.args.insertions[i], "url", <<>>)
          /\ \A j \in 1..Len(last.args.insertions) :
               Reported(last, last.args.insertions[j])


\* how many outcomes a call emitted: rejections printed by the three filters,
\* entries of applied, entries of failed
Outcomes(l) ==
  Len(l.log.anti) + Len(l.log.quality) + Len(l.log.context)
    + Len(l.result.applied) + Len(l.result.failed)

\* C17: every insertion submitted to apply_link_insertions (the store answering
\* every request) ends in exactly one outcome: rejected by the anti-pattern
\* prefilter, by the quality filter or by context validation, applied, or failed;
\* each is emitted with its anchor; no insertion is left without an outcome.
C17_ExactlyOneOutcome ==
  (last.op = "apply" /\ last.clean /\ last.args.post_id = PostId)
  => /\ Outcomes(last) = Len(last.args.insertions)
     /\ \A i \in 1..Len(last.args.insertions) : Reported(last, last.args.insertions[i])


-----------------------------------------------------------------------------
(* Properties of the internal URL shape *)

\* C18: for every slug and every optional category slug,
\* extract_slug_from_internal_url(build_internal_url(slug, category)) is the slug,
\* under templates with {slug} alone, with {category} and a category given, and
\* with {category} and no category available.
C18_SlugRoundTrip ==
  probe.done => probe.back = probe.slug


\* the posts the store returns for a candidate query of the call l: the published
\* posts other than exclude_slug that satisfy want, newest first, at most limit
\* of them; none when the query was not sent or failed
Returned(l, limit, sent, want(_)) ==
  IF ~sent THEN <<>>
  ELSE Take(SelectSeq(l.catalog,
                      LAMBDA post : /\ post.published
                                    /\ post.slug # l.args.exclude_slug
                                    /\ want(post)),
            limit)

RECURSIVE IsSubsequence(_, _)
\* whether sub is seq with some elements left out
IsSubsequence(sub, seq) ==
  IF sub = <<>> THEN TRUE
  ELSE IF seq = <<>> THEN FALSE
  ELSE IF Head(sub) = Head(seq) THEN IsSubsequence(Tail(sub), Tail(seq))
  ELSE IsSubsequence(sub, Tail(seq))

\* C19: the candidates get_internal_link_suggestions hands to the Scorer are the
\* same-category results in their order, then the keyword-match results not among
\* them; no slug stands twice; there are at most min(limit, 15) of them (limit 8
\* when none is given); the suggestions returned are a subsequence of the
\* candidates, in their order.
C19_CandidateList ==
  (last.op = "suggest" /\ last.asked)
  => LET limit == IF "limit" \in last.args.keys /\ last.args.limit < 15
                  THEN last.args.limit
                  ELSE IF "limit" \in last.args.keys THEN 15 ELSE 8
         same == Returned(last, limit,
                          last.args.category_id # "" /\ last.env.cat = "ok",
                          LAMBDA post : post.category_id = last.args.category_id)
         matches == Returned(last, limit, last.env.title = "ok",
                             LAMBDA post : Contains(Lower(post.title),
                                                    Split(Lower(last.args.topic))[1]))
         fresh == SelectSeq(matches,
                            LAMBDA post : \A k \in 1..Len(same) : same[k].slug # post.slug)
         slugs == [k \in 1..Len(last.candidates) |-> last.candidates[k].slug]
     IN  /\ IsSubsequence(slugs, [k \in 1..Len(same \o fresh) |-> (same \o fresh)[k].slug])
         /\ IF Len(same \o fresh) < limit THEN Len(slugs) = Len(same \o fresh)
            ELSE Len(slugs) = limit
         /\ slugs = SubSeq([k \in 1..Len(same \o fresh) |-> (same \o fresh)[k].slug],
                           1, Len(slugs))
         /\ \A j, k \in 1..Len(slugs) : j # k => slugs[j] # slugs[k]
         /\ Len(slugs) <= limit /\ Len(slugs) <= 15
         /\ IsSubsequence([k \in 1..Len(last.result.suggestions) |->
                             last.result.suggestions[k].title],
                          [k \in 1..Len(last.candidates) |-> last.candidates[k].title])

\* a call with limit 20 on the catalog of MaxCatalog posts handed 15 candidates to
\* the Scorer and returned some of them, not all
C19_Witness ==
  /\ last.op = "suggest" /\ last.asked
  /\ last.args.limit = 20
  /\ Len(last.candidates) = 15
  /\ Len(last.result.suggestions) \in 1..14


-----------------------------------------------------------------------------
(* Properties of Link Removal: the whole article *)

\* the internal-style anchor tags in the prose-bearing blocks of the content c, as
\* extract_links_from_content finds them (the button captions left out)
InternalTagsIn(c) ==
  SelectSeq(LinksIn(SelectSeq(c, LAMBDA block : block.type # "button")),
            LAMBDA link : link.link_type = "internal")

\* C20: after remove_internal_links_from_post succeeds, no internal-style anchor
\* tag remains in a paragraph, list item, callout or accordion answer of the
\* article; every text is the text before with each internal tag replaced by its
\* inner text; the reported count is the number of tags removed; the ledger holds
\* no internal row of the article.
C20_RemoveAllLeavesNoInternalTag ==
  (last.op = "remove_all" /\ last.result.ok)
  => /\ InternalTagsIn(content) = <<>>
     /\ Len(content) = Len(last.pre)
     /\ \A k \in 1..Len(last.pre) :
          /\ Len(TextsOf(content[k])) = Len(TextsOf(last.pre[k]))
          /\ \A i \in 1..Len(TextsOf(last.pre[k])) :
               TextsOf(content[k])[i] =
                 SubInner(TextsOf(last.pre[k])[i],
                          FindAll(InternalTag, TextsOf(last.pre[k])[i]), 1)
     /\ last.result.count = Len(InternalTagsIn(last.pre)) - Len(InternalTagsIn(content))
     /\ \A r \in RowsOf(ledger) : r.link_type # "internal"


-----------------------------------------------------------------------------
(* Properties of the commit point *)

\* how many times the request req stands among the requests reqs
Times(reqs, req) == Cardinality({i \in 1..Len(reqs) : reqs[i] = req})

\* the requests save_post_links sends
SyncRequests == {"GET blog_posts slugs", "DELETE blog_post_links post", "POST blog_post_links"}

\* the applied list of the call l of apply_link_insertions when its loop ended:
\* empty when the call returned before the loop
AppliedInMemory(l) ==
  LET Mutated(f) == ApplyMutateWith(l.pre, f, ApplyContexts(l.pre, f), l.judge).applied
  IN  IF \/ l.result.msg = "Error fetching post"
         \/ l.result.msg = "Error: exception" /\ l.requests = <<"GET blog_posts">>
      THEN <<>>
      ELSE Mutated(ApplyFilters(l.pre, l.args, "ok"))

\* C21: apply_link_insertions issues the content write exactly when at least one
\* insertion was applied, once; save_post_links runs once in an invocation whose
\* write succeeded, every request of it after the write, and not at all in an
\* invocation without a successful write.
C21_WriteIffAppliedThenSync ==
  last.op = "apply"
  => /\ Times(last.requests, "PATCH blog_posts")
          = (IF AppliedInMemory(last) # <<>> THEN 1 ELSE 0)
     /\ Times(last.requests, "DELETE blog_post_links post") = (IF last.wrote THEN 1 ELSE 0)
     /\ Times(last.requests, "POST blog_post_links") <= 1
     /\ \A i \in 1..Len(last.requests) :
          last.requests[i] \in SyncRequests
          => /\ last.wrote
             /\ \E j \in 1..(i - 1) : last.requests[j] = "PATCH blog_posts"

\* an invocation applied a link, wrote the content and then ran save_post_links
C21_Witness ==
  /\ last.op = "apply" /\ last.wrote
  /\ AppliedInMemory(last) # <<>>
  /\ Sent(last, "DELETE blog_post_links post")
  /\ last.requests[Len(last.requests)] = "POST blog_post_links"

\* the requests that change the ledger
LedgerWrites ==
  {"DELETE blog_post_links post", "POST blog_post_links",
   "DELETE blog_post_links internal", "DELETE blog_post_links id"}

\* the call l issued the content write and the write did not succeed: it returned
\* an error, the write was its last request, the store is as it was
FailedWriteStops(l) ==
  (Sent(l, "PATCH blog_posts") /\ ~l.wrote)
  => /\ ~l.result.ok
     /\ l.requests[Len(l.requests)] = "PATCH blog_posts"
     /\ \A i \in 1..Len(l.requests) : l.requests[i] \notin LedgerWrites
     /\ content = l.pre /\ ledger = l.preLedger

\* remove_single_link_by_id found no anchor tag with the row's URL: it issued no
\* content write and went on to delete the row
Unmatched(l) ==
  /\ l.op = "remove_one"
  /\ l.requests = <<"GET blog_post_links", "GET blog_posts", "DELETE blog_post_links id">>

-----------------------------------------------------------------------------
(* Properties of batching *)

\* whether an insertion of the call l qualifies for context validation: it
\* overlaps none of its anti-patterns, its anchor passes the quality filter, it
\* carries a target title, and a block of the article yields a context for it
Qualifies(l, ins) ==
  /\ MatchedAnti(ins) = <<>>
  /\ is_quality_anchor(Get(ins, "anchor_text", <<>>))
  /\ Get(ins, "target_title", <<>>) # <<>>
  /\ ContextOf(ins, l.pre) # <<>>

\* the insertions the judgment request of the call l lists, in its order
Listed(l) ==
  LET Titled(insertions) ==
        LET Ctx(ctxs) ==
              SelectSeq2(insertions, {k \in 1..Len(insertions) : ctxs[k] # <<>>})
        IN  Ctx(Contexts(insertions, l.pre))
  IN  Titled(SubmittedForContext(l))

\* C23: one apply_link_insertions invocation sends at most one judgment request;
\* the request lists only insertions that passed the anti-pattern prefilter and
\* the quality filter, carry a target title and have a context, each of them once
\* for each time it was given; none is sent when no insertion qualifies. One
\* get_internal_link_suggestions invocation sends at most one scoring request, and
\* that one carries all its candidates.
C23_OneRequestPerBatch ==
  /\ last.op = "apply"
     => /\ Times(last.requests, "POST judgment") <= 1
        /\ Sent(last, "POST judgment")
           => /\ Listed(last) # <<>>
              /\ Listed(last) = SelectSeq(last.args.insertions,
                                          LAMBDA ins : Qualifies(last, ins))
        /\ (\A k \in 1..Len(last.args.insertions) :
              ~Qualifies(last, last.args.insertions[k]))
           => ~Sent(last, "POST judgment")
  /\ last.op = "suggest"
     => /\ Times(last.requests, "POST scoring") <= 1
        /\ Sent(last, "POST scoring") <=> last.asked
        /\ ~last.asked => last.candidates = <<>>

\* an invocation with two titled insertions sent one judgment request for both
C23_Witness ==
  /\ last.op = "apply"
  /\ Len(Listed(last)) = 2
  /\ Times(last.requests, "POST judgment") = 1


-----------------------------------------------------------------------------
(* Properties of the Context Validator: the approved set *)

\* what validate_link_contexts_batch returned in the call l
Validated(l) == validate_link_contexts_batch(SubmittedForContext(l), l.pre, l.judge)

\* the place of the k-th insertion handed over among those submitted to the
\* judgment service: how many of the first k have a context
PlaceAmongSubmitted(l, k) ==
  Cardinality({j \in 1..k : ContextOf(SubmittedForContext(l)[j], l.pre) # <<>>})

\* whether the k-th insertion handed over is to be approved
Approved(l, k) ==
  \/ ContextOf(SubmittedForContext(l)[k], l.pre) = <<>>
  \/ l.judge.vals[PlaceAmongSubmitted(l, k)]

\* C24: on a well-formed judgment answer (a list of one boolean per submitted
\* item), validate_link_contexts_batch returns, in input order, exactly the
\* insertions without a context and the insertions with a context whose boolean,
\* counted among the submitted items only, is true.
C24_ApprovedSet ==
  ( /\ last.op = "apply"
    /\ Sent(last, "POST judgment")
    /\ last.judge.kind = "list"
    /\ Len(last.judge.vals) = ItemsJudged(last) )
  => Validated(last)
       = SelectSeq2(SubmittedForContext(last),
                    {k \in 1..Len(SubmittedForContext(last)) : Approved(last, k)})

\* a well-formed answer of one boolean, false, for two insertions handed over: the
\* first had no context and was passed through, the second was dropped
C24_Witness ==
  /\ last.op = "apply"
  /\ Sent(last, "POST judgment")
  /\ last.judge = [kind |-> "list", vals |-> <<FALSE>>]
  /\ Len(SubmittedForContext(last)) = 2
  /\ Validated(last) = <<SubmittedForContext(last)[1]>>


-----------------------------------------------------------------------------
(* Properties of the Link Applier: the kinds of block *)

\* the prose of a block: paragraph text, list items, callout text, accordion
\* answers, button caption
ProseOf(block) ==
  IF block.type = "button" THEN <<block.data.text>> ELSE TextsOf(block)

\* the anchor stands in the text and is not yet wrapped there
Linkable(text, anchor) ==
  /\ FindLowerFrom(text, Lower(anchor), 1) # 0
  /\ ~Contains(Lower(text), Lower(<<">">> \o anchor \o <<"<","/","a",">">>))

\* C25: apply_link_insertions inserts a link into a block of every prose-bearing
\* kind: when every request succeeds and no error is returned, an insertion
\* without target title that passed the filters and whose anchor stands unlinked
\* in a paragraph, list item, callout, accordion answer or button caption is
\* applied. No block of another kind is modified.
C25_EveryProseKind ==
  (last.op = "apply" /\ last.clean /\ last.result.ok)
  => /\ \A k \in 1..Len(last.args.insertions) :
          LET ins == last.args.insertions[k]
          IN  ( /\ {"anchor_text", "url"} \subseteq ins.keys
                /\ Get(ins, "target_title", <<>>) = <<>>
                /\ Get(ins, "block_id", "") = ""
                /\ MatchedAnti(ins) = <<>>
                /\ is_quality_anchor(ins.anchor_text)
                /\ \E b \in 1..Len(last.pre) :
                   \E i \in 1..Len(ProseOf(last.pre[b])) :
                     Linkable(ProseOf(last.pre[b])[i], ins.anchor_text) )
              => \E a \in 1..Len(last.result.applied) :
                   Lower(last.result.applied[a].anchor_text) = Lower(ins.anchor_text)
     /\ \A b \in 1..Len(last.pre) :
          last.pre[b].type \notin {"paragraph", "list", "callout", "accordion", "button"}
          => content[b] = last.pre[b]


-----------------------------------------------------------------------------
(* Properties of the Link Applier: nesting *)

\* the positions of the text where the phrase starts
StartsOf(text, phrase) ==
  {i \in 1..(Len(text) - Len(phrase) + 1) : SubSeq(text, i, i + Len(phrase) - 1) = phrase}

\* no link wrapper opens inside another: between two openings of an anchor tag
\* there is a closing
Unnested(text) ==
  \A i, j \in StartsOf(text, <<"<","a"," ">>) :
    i < j => \E c \in StartsOf(text, <<"<","/","a",">">>) : i < c /\ c < j

\* every prose text of the content c is free of nesting
AllUnnested(c) ==
  \A b \in 1..Len(c) : \A i \in 1..Len(ProseOf(c[b])) : Unnested(ProseOf(c[b])[i])

\* C26: apply_link_insertions never corrupts the content by nesting: on content
\* without nested link wrappers, after an invocation no link wrapper lies inside
\* the visible text of another or inside a tag's attributes.
C26_NoNesting ==
  (last.op = "apply" /\ AllUnnested(last.pre)) => AllUnnested(content)


-----------------------------------------------------------------------------
(* Properties of the Link Applier: the context judged and the text wrapped *)

\* the block whose text gave the context of the insertion: the first one whose
\* text holds the anchor
ContextBlock(ins, c) ==
  Least({k \in 1..Len(c) :
           /\ ContextText(c[k]) # <<>>
           /\ FindLowerFrom(ContextText(c[k]), Lower(ins.anchor_text), 1) # 0})

\* C27: for every insertion apply_link_insertions applies after its context was
\* judged, the context submitted comes from the block that is then wrapped and
\* holds the occurrence that is wrapped, also when the insertion names a block id
\* and when an earlier occurrence is already linked.
C27_ContextIsOfWrappedBlock ==
  (last.op = "apply" /\ Sent(last, "POST judgment"))
  => \A a \in 1..Len(last.result.applied) :
     \A k \in 1..Len(Listed(last)) :
       ( /\ Lower(Listed(last)[k].anchor_text) = Lower(last.result.applied[a].anchor_text)
         /\ Listed(last)[k].url = last.result.applied[a].url )
       => /\ last.pre[ContextBlock(Listed(last)[k], last.pre)].id
               = last.result.applied[a].block_id
          /\ Contains(ContextOf(Listed(last)[k], last.pre),
                      last.result.applied[a].anchor_text)


-----------------------------------------------------------------------------
(* Properties of overlapping invocations *)

\* the invocation that wrote the content last
LastWriter == CHOOSE p \in Procs : inflight[p].stamp = Writes

\* the links the invocation p reported as applied are in the stored content
AppliedKept(p) ==
  \A a \in 1..Len(inflight[p].result.applied) :
    \E i \in 1..Len(LinksIn(content)) :
      LinksIn(content)[i].url = inflight[p].result.applied[a].url

\* C28: there is no mutual exclusion per article: among overlapping invocations
\* of apply_link_insertions the later content write overwrites the earlier one.
\* The stored content is the copy of the invocation that wrote last, made from
\* the content that invocation read, whatever was written in between: a link an
\* earlier writer applied to the same content is in it only if the article had a
\* link with that URL already or the last writer applied one too.
C28_LaterWriteOverwrites ==
  Writes > 0
  => /\ content = inflight[LastWriter].m.content
     /\ content = ApplyInsertions(inflight[LastWriter].read,
                                  inflight[LastWriter].args.insertions).content
     /\ \A p \in Procs :
          ( /\ 0 < inflight[p].stamp /\ inflight[p].stamp < Writes
            /\ inflight[p].read = inflight[LastWriter].read )
          => \A a \in 1..Len(inflight[p].m.applied) :
               (\E i \in 1..Len(LinksIn(content)) :
                  LinksIn(content)[i].url = inflight[p].m.applied[a].url)
               => \/ \E i \in 1..Len(LinksIn(inflight[p].read)) :
                       LinksIn(inflight[p].read)[i].url = inflight[p].m.applied[a].url
                  \/ \E b \in 1..Len(inflight[LastWriter].m.applied) :
                       inflight[LastWriter].m.applied[b].url = inflight[p].m.applied[a].url

\* a lost update: every invocation is done, one of them reported a link as
\* applied that is not in the stored content, and the ledger differs from the
\* content
C28_Witness ==
  /\ \A p \in Procs : inflight[p].pc = "done"
  /\ \E p \in Procs : inflight[p].result.applied # <<>> /\ ~AppliedKept(p)
  /\ ~LedgerMatches(content, ledger)


-----------------------------------------------------------------------------
(* Properties of the Link Applier: a failed Ledger Sync *)

\* C29: when the ledger delete or the ledger insert of save_post_links fails in an
\* apply_link_insertions run (a non-success status or an exception), the
\* invocation returns an error, not a success report.
C29_SyncFailureReported ==
  (last.op = "apply" /\ last.wrote /\ ~last.rewrote) => ~last.result.ok


-----------------------------------------------------------------------------
(* Properties of Link Removal: external links *)

\* the external links of the content c, as extract_links_from_content reads them
ExternalLinksIn(c) == SelectSeq(LinksIn(c), LAMBDA link : link.link_type = "external")

\* C30: remove_internal_links_from_post leaves every external link of the content
\* as it was (the same links with the same href, text and attributes, in the same
\* order) and deletes no external ledger row of the article. External is what
\* extract_links_from_content classes as external.
C30_ExternalUntouched ==
  last.op = "remove_all"
  => /\ ExternalLinksIn(content) = ExternalLinksIn(last.pre)
     /\ {r \in ledger : r.link_type # "internal"}
          = {r \in last.preLedger : r.link_type # "internal"}

====
